---- MODULE Spec2Model ----
(***************************************************************************)
(* Ingestion engine of tiger2go: the syndicated-feed dual-write            *)
(* (internal/ingestor), the NVD windowed walk (internal/cve/nvd.go) and    *)
(* the CISA-KEV catalog sync (internal/cve/kev.go), over the relations     *)
(* archive, current, cve_enriched and ingest_state.                        *)
(*                                                                         *)
(* Time is counted in ticks; TicksPerSec ticks make one second, so that    *)
(* time.Time values carry a sub-second part that RFC3339 formatting drops. *)
(***************************************************************************)
EXTENDS Integers, Sequences, FiniteSets, TLC

(***************************************************************************)
(* Bounds of the model.                                                    *)
(***************************************************************************)
NumWorkers == 2
MaxClock == 1
TicksPerSec == 2
PageSize == 2
MaxTotal == 3
MaxRetries == 5
EpssPageSize == 1
MaxMetrics == 2
NumFeeds == 5
NumCallers == 2
MaxDay == 2

(***************************************************************************)
(* Constants of the program.                                               *)
(***************************************************************************)
MaxWindowDays == 120
InitialBackoff == 6
MaxBackoff == 60
SemCapacity == 3

VARIABLES
    clock,          \* wall clock read by time.Now() / NOW(), in ticks
    archive,        \* relation archive: committed rows
    current,        \* relation current: committed rows
    wpc,            \* per feed worker: position inside processItem
    wparams,        \* per feed worker: the resolved statement parameters
    wtxStart,       \* per feed worker: NOW(), the start time of its transaction
    txArchive,      \* per feed worker: uncommitted rows inserted into archive
    txCurrent,      \* per feed worker: uncommitted replacement in current
    wprop,          \* per feed worker: the rows its two statements proposed
    firstCommitted, \* history: per guid, the archive row of the first commit
    lastCommitted,  \* history: per guid, the parameters of the latest commit
    enriched,       \* relation cve_enriched: rows keyed by (cve_id, source)
    ingestState,    \* relation ingest_state: per source, its cursor row if any
    nvdPc,          \* NVD runner: position inside Run
    nvdNow,         \* NVD runner: now, read once per cycle
    startDt,        \* NVD runner: start of the window being walked
    endDt,          \* NVD runner: end of the window being walked
    startIndex,     \* NVD runner: startIndex of processWindow
    backoff,        \* NVD runner: backoff of fetchWithRetry, in seconds
    retries,        \* history: 429/503 responses to the request in progress
    nvdResult,      \* NVD runner: what the last Run returned
    cycleCursor,    \* history: the cursor the current cycle started from
    cycleWindows,   \* history: the windows the current cycle has issued
    winFetched,     \* history: identifiers served in pages of the current window
    pause,          \* history: tenths of a second slept since the last response
    winTotal,       \* history: totalResults of the response that ended the window
    lastDone,       \* history: the last window whose end was persisted
    lastUpserted,   \* history: per key, the upstream record upserted last
    kevPc,          \* KEV runner: position inside Run
    kevCatalog,     \* KEV runner: the catalog fetched by the current cycle
    kevResult,      \* KEV runner: what the last Run returned
    nvdEnabled,     \* configuration: nvd.enabled
    kevEnabled,     \* configuration: kev.enabled
    epssEnabled,    \* configuration: epss.enabled
    cancelled,      \* the context passed to Run has been cancelled
    epssUpstream,   \* the data set the EPSS upstream serves
    epssDaily,      \* relation epss_daily: rows keyed by (as_of, cve_id)
    epssPartitions, \* the monthly partitions of epss_daily that exist
    epssPc,         \* EPSS runner: position inside Run
    epssDate,       \* EPSS runner: date, the as-of-date of page 0
    epssTotal,      \* EPSS runner: total
    epssOffset,     \* EPSS runner: offset
    epssPage,       \* EPSS runner: the page about to be appended
    epssResult,     \* EPSS runner: what the last Run returned
    epssDone,       \* history: date and data set of a cycle that met no failure
    feedRun,        \* supervisor: per configured feed, where its fetch stands
    sem,            \* supervisor: slots of the feed semaphore that are taken
    migDir,         \* the versions of the files in the migration directory
    gooseVersions,  \* relation goose_db_version: the versions recorded as applied
    schemaLog,      \* history: the migrations whose statements were committed, in order
    migPc,          \* Migrate: position inside Migrate / goose.Up
    migTx,          \* Migrate: the migration whose transaction is open
    migBefore,      \* history: goose_db_version when the last Migrate started
    migApplied,     \* history: the migrations the last Migrate committed, in order
    migResult,      \* Migrate: what the last Migrate returned
    storeDay,       \* file store: the calendar day of time.Now()
    storeFiles,     \* file store: per day, the content of advisories_<day>.json
    storeMu,        \* file store: Store.mu, its writer and its readers
    storePc,        \* file store: per caller, position inside Save / Load
    storeArg,       \* file store: per caller, the argument of its call
    storeOut,       \* file store: what the call that returned last returned
    lastSaved,      \* history: per day, the list of the last save that returned nil
    intact,         \* history: per day, no write has failed since that save
    fdoc,           \* FetchAndSave: per worker, the feed document being walked
    fnext,          \* FetchAndSave: per worker, the items handed to processItem
    fseen           \* history: per worker, the titles of those items, in order

feedVars == <<archive, current, wpc, wparams, wtxStart, txArchive, txCurrent,
              wprop, firstCommitted, lastCommitted>>

nvdVars == <<nvdPc, nvdNow, startDt, endDt, startIndex, backoff, retries, nvdResult,
             cycleCursor, cycleWindows, winFetched, winTotal, pause, lastDone>>

dbVars == <<enriched, ingestState, lastUpserted>>

kevVars == <<kevPc, kevCatalog, kevResult>>

cfgVars == <<nvdEnabled, kevEnabled, epssEnabled>>

ctxVars == <<cancelled>>

supVars == <<feedRun, sem>>

migVars == <<migDir, gooseVersions, schemaLog, migPc, migTx, migBefore, migApplied,
             migResult>>

storeVars == <<storeDay, storeFiles, storeMu, storePc, storeArg, storeOut, lastSaved,
               intact>>

ordVars == <<fdoc, fnext, fseen>>

sysVars == <<supVars, migVars, storeVars, ordVars>>

epssDbVars == <<epssDaily, epssPartitions>>

epssVars == <<epssUpstream, epssDbVars, epssPc, epssDate, epssTotal, epssOffset,
              epssPage, epssResult, epssDone>>

nonFeedVars == <<dbVars, nvdVars, kevVars, cfgVars, sysVars, ctxVars, epssVars>>

nonOrdVars == <<dbVars, nvdVars, kevVars, cfgVars, supVars, migVars, storeVars, ctxVars,
                epssVars>>

vars == <<clock, feedVars, dbVars, nvdVars, kevVars, cfgVars, sysVars, ctxVars, epssVars>>

Workers == 1..NumWorkers

(***************************************************************************)
(* Upstream feed documents.  HTML text is a sequence of elements; optional *)
(* values (pointers to time.Time) are sequences of length 0 or 1; a nil    *)
(* slice is distinguished from an empty one.                               *)
(***************************************************************************)
NilSlice == [isNil |-> TRUE, v |-> <<>>]
Slice(s) == [isNil |-> FALSE, v |-> s]

FeedA == [cfg  |-> [Name |-> "A", URL |-> "https://a/feed"],
          feed |-> [Title |-> "Feed A", Description |-> "about A", Language |-> "en"]]
FeedB == [cfg  |-> [Name |-> "B", URL |-> "https://b/feed"],
          feed |-> [Title |-> "Feed B", Description |-> "about B", Language |-> "fr"]]

Item1 == [GUID |-> "g1", Link |-> "https://x/a", Title |-> "T1",
          Content |-> <<"p", "script">>, Description |-> <<"p">>,
          PublishedParsed |-> <<0>>, UpdatedParsed |-> <<>>,
          Authors |-> <<"alice", "bob">>, Categories |-> Slice(<<"c1">>)]
Item2 == [GUID |-> "g1", Link |-> "https://x/a2", Title |-> "T2",
          Content |-> <<"script">>, Description |-> <<"em", "script">>,
          PublishedParsed |-> <<>>, UpdatedParsed |-> <<1>>,
          Authors |-> <<>>, Categories |-> NilSlice]
Item3 == [GUID |-> "", Link |-> "https://x/b", Title |-> "T3",
          Content |-> <<>>, Description |-> <<>>,
          PublishedParsed |-> <<>>, UpdatedParsed |-> <<>>,
          Authors |-> <<>>, Categories |-> NilSlice]
Item4 == [GUID |-> "", Link |-> "", Title |-> "T4",
          Content |-> <<"p">>, Description |-> <<>>,
          PublishedParsed |-> <<>>, UpdatedParsed |-> <<>>,
          Authors |-> <<>>, Categories |-> NilSlice]

FeedInputs == { [src |-> FeedA, item |-> Item1],
                [src |-> FeedB, item |-> Item2],
                [src |-> FeedA, item |-> Item3],
                [src |-> FeedA, item |-> Item4] }

Guids == {"g1", "https://x/b"}

(***************************************************************************)
(* bluemonday.UGCPolicy().Sanitize: elements outside the allowlist are     *)
(* dropped, the others are kept in order.                                  *)
(***************************************************************************)
UGCAllowed == {"p", "em", "a", "img", "ul", "li", "text"}
IsAllowed(e) == e \in UGCAllowed

\* Mutant of Sanitize: the text is passed through.
SanitizeNothing(html) == html

Sanitize(html) == SelectSeq(html, IsAllowed)

(***************************************************************************)
(* processItem, lines 58-98: the parameters of the two statements.         *)
(***************************************************************************)
\* Mutant of ResolveGuid: the link is preferred to the GUID.
ResolveGuidLinkFirst(item) == IF item.Link = "" THEN item.GUID ELSE item.Link

\* processItem lines 66-69: the GUID, or the link when the GUID is empty.
ResolveGuid(item) == IF item.GUID = "" THEN item.Link ELSE item.GUID

ResolveContent(item) ==
    IF Sanitize(item.Content) = <<>> THEN Sanitize(item.Description)
    ELSE Sanitize(item.Content)

ResolvePublished(item, now) ==
    IF item.PublishedParsed # <<>> THEN item.PublishedParsed[1]
    ELSE IF item.UpdatedParsed # <<>> THEN item.UpdatedParsed[1]
    ELSE now

ResolveUpdated(item, now) ==
    IF item.UpdatedParsed # <<>> THEN item.UpdatedParsed[1]
    ELSE ResolvePublished(item, now)

ResolveAuthor(item) ==
    IF Len(item.Authors) > 0 THEN item.Authors[1] ELSE ""

ResolveCategories(item) ==
    IF item.Categories.isNil THEN <<>> ELSE item.Categories.v

Params(in, now) ==
    [guid             |-> ResolveGuid(in.item),
     title            |-> in.item.Title,
     link             |-> in.item.Link,
     published        |-> ResolvePublished(in.item, now),
     content          |-> ResolveContent(in.item),
     summary          |-> Sanitize(in.item.Description),
     author           |-> ResolveAuthor(in.item),
     categories       |-> ResolveCategories(in.item),
     entry_updated    |-> ResolveUpdated(in.item, now),
     feed_url         |-> in.src.cfg.URL,
     feed_title       |-> in.src.feed.Title,
     feed_description |-> in.src.feed.Description,
     feed_language    |-> in.src.feed.Language]

NoParams == Params([src |-> FeedA, item |-> Item4], 0)

\* The row a statement proposes: its parameters, $14 = time.Now() and NOW().
ProposedRow(p, feedUpdated, insertedAt) ==
    [guid             |-> p.guid,
     title            |-> p.title,
     link             |-> p.link,
     published        |-> p.published,
     content          |-> p.content,
     summary          |-> p.summary,
     author           |-> p.author,
     categories       |-> p.categories,
     entry_updated    |-> p.entry_updated,
     feed_url         |-> p.feed_url,
     feed_title       |-> p.feed_title,
     feed_description |-> p.feed_description,
     feed_language    |-> p.feed_language,
     feed_updated     |-> feedUpdated,
     inserted_at      |-> insertedAt]

RowsOf(rel, g) == {r \in rel : r.guid = g}

(***************************************************************************)
(* The two statements of the dual-write, as relations on committed rows.   *)
(***************************************************************************)
\* Mutant of ArchiveInsert: the conflict clause is missing.
ArchiveInsertNoConflict(rel, row) == rel \cup {row}

\* INSERT INTO archive ... ON CONFLICT (guid) DO NOTHING
ArchiveInsert(rel, row) ==
    IF RowsOf(rel, row.guid) # {} THEN rel ELSE rel \cup {row}

\* ON CONFLICT (guid) DO UPDATE SET ...: the columns the statement assigns.
UpsertSetColumns ==
    {"title", "link", "published", "content", "summary", "author",
     "categories", "entry_updated", "feed_url", "feed_title",
     "feed_description", "feed_updated"}

UpdateRow(old, new) ==
    [f \in DOMAIN old |-> IF f \in UpsertSetColumns THEN new[f] ELSE old[f]]

\* INSERT INTO current ... ON CONFLICT (guid) DO UPDATE SET ...
CurrentUpsert(rel, row) ==
    IF RowsOf(rel, row.guid) # {}
    THEN (rel \ RowsOf(rel, row.guid))
            \cup {UpdateRow(old, row) : old \in RowsOf(rel, row.guid)}
    ELSE rel \cup {row}

NoWrite == [del |-> {}, ins |-> {}]
NoProp == [arch |-> {}, cur |-> {}]

\* A statement on guid g waits while another open transaction holds an
\* uncommitted row of that guid in the same relation (unique index on guid).
ArchiveLocked(w, g) ==
    \E v \in Workers \ {w} : RowsOf(txArchive[v], g) # {}
\* The upsert locks the row it inserts or updates until its transaction ends,
\* also when the update leaves every column as it was.
CurrentLocked(w, g) ==
    \E v \in Workers \ {w} : wpc[v] = "upserted" /\ wparams[v].guid = g

\* Mutant of CommitCurrent: the upsert is lost at commit.
CommitCurrentLost(rel, w) == rel

\* Mutant of CommitArchive: the archive insert is lost at commit.
CommitArchiveLost(rel, w) == rel

\* tx.Commit: both statements' effects become visible together.
CommitArchive(rel, w) == rel \cup txArchive[w]

CommitCurrent(rel, w) == (rel \ txCurrent[w].del) \cup txCurrent[w].ins

(***************************************************************************)
(* Actions of the feed collector.                                          *)
(***************************************************************************)
FeedInit ==
    /\ archive = {}
    /\ current = {}
    /\ wpc = [w \in Workers |-> "idle"]
    /\ wparams = [w \in Workers |-> NoParams]
    /\ wtxStart = [w \in Workers |-> 0]
    /\ txArchive = [w \in Workers |-> {}]
    /\ txCurrent = [w \in Workers |-> NoWrite]
    /\ wprop = [w \in Workers |-> NoProp]
    /\ firstCommitted = [g \in Guids |-> {}]
    /\ lastCommitted = [g \in Guids |-> {}]

\* The wall clock advances.  Its resolution is coarser than one transaction:
\* it steps between dual-writes, never while one is open.
Tick ==
    /\ clock < MaxClock
    /\ \A w \in Workers : wpc[w] = "idle"
    /\ clock' = clock + 1
    /\ UNCHANGED <<feedVars, nonFeedVars>>

\* processItem lines 66-72: an item with neither GUID nor link is rejected.
RejectItem(w) ==
    /\ wpc[w] = "idle"
    /\ \E in \in FeedInputs : ResolveGuid(in.item) = ""
    /\ UNCHANGED vars

\* processItem lines 58-104: resolve the fields, then c.db.Begin succeeds.
BeginTx(w) ==
    /\ wpc[w] = "idle"
    /\ \E in \in FeedInputs :
        /\ ResolveGuid(in.item) # ""
        /\ wparams' = [wparams EXCEPT ![w] = Params(in, clock)]
    /\ wpc' = [wpc EXCEPT ![w] = "began"]
    /\ wtxStart' = [wtxStart EXCEPT ![w] = clock]
    /\ UNCHANGED <<nonFeedVars, clock, archive, current, txArchive, txCurrent, wprop,
                   firstCommitted, lastCommitted>>

\* processItem lines 100-103: c.db.Begin fails, nothing was opened.
BeginFails(w) ==
    /\ wpc[w] = "idle"
    /\ \E in \in FeedInputs : ResolveGuid(in.item) # ""
    /\ UNCHANGED vars

\* processItem lines 106-127: the archive statement inside the transaction.
ExecArchive(w) ==
    /\ wpc[w] = "began"
    /\ ~ArchiveLocked(w, wparams[w].guid)
    /\ LET row == ProposedRow(wparams[w], clock, wtxStart[w])
       IN /\ txArchive' = [txArchive EXCEPT ![w] = ArchiveInsert(archive, row) \ archive]
          /\ wprop' = [wprop EXCEPT ![w].arch = {row}]
    /\ wpc' = [wpc EXCEPT ![w] = "archived"]
    /\ UNCHANGED <<nonFeedVars, clock, archive, current, wparams, wtxStart, txCurrent,
                   firstCommitted, lastCommitted>>

\* processItem lines 129-162: the current statement inside the transaction.
ExecCurrent(w) ==
    /\ wpc[w] = "archived"
    /\ ~CurrentLocked(w, wparams[w].guid)
    /\ LET row == ProposedRow(wparams[w], clock, wtxStart[w])
           after == CurrentUpsert(current, row)
       IN /\ txCurrent' = [txCurrent EXCEPT
                              ![w] = [del |-> current \ after, ins |-> after \ current]]
          /\ wprop' = [wprop EXCEPT ![w].cur = {row}]
    /\ wpc' = [wpc EXCEPT ![w] = "upserted"]
    /\ UNCHANGED <<nonFeedVars, clock, archive, current, wparams, wtxStart, txArchive,
                   firstCommitted, lastCommitted>>

\* processItem line 164: tx.Commit succeeds.
CommitTx(w) ==
    /\ wpc[w] = "upserted"
    /\ archive' = CommitArchive(archive, w)
    /\ current' = CommitCurrent(current, w)
    /\ LET g == wparams[w].guid
       IN /\ firstCommitted' =
                IF firstCommitted[g] = {}
                THEN [firstCommitted EXCEPT ![g] = wprop[w].arch]
                ELSE firstCommitted
          /\ lastCommitted' = [lastCommitted EXCEPT ![g] = wprop[w].cur]
    /\ txArchive' = [txArchive EXCEPT ![w] = {}]
    /\ txCurrent' = [txCurrent EXCEPT ![w] = NoWrite]
    /\ wpc' = [wpc EXCEPT ![w] = "idle"]
    /\ wparams' = [wparams EXCEPT ![w] = NoParams]
    /\ wtxStart' = [wtxStart EXCEPT ![w] = 0]
    /\ wprop' = [wprop EXCEPT ![w] = NoProp]
    /\ UNCHANGED <<nonFeedVars, clock>>

\* processItem lines 104, 125-127, 160-164: a statement or the commit fails,
\* or the context is cancelled; the deferred tx.Rollback discards the writes.
RollbackTx(w) ==
    /\ wpc[w] \in {"began", "archived", "upserted"}
    /\ txArchive' = [txArchive EXCEPT ![w] = {}]
    /\ txCurrent' = [txCurrent EXCEPT ![w] = NoWrite]
    /\ wpc' = [wpc EXCEPT ![w] = "idle"]
    /\ wparams' = [wparams EXCEPT ![w] = NoParams]
    /\ wtxStart' = [wtxStart EXCEPT ![w] = 0]
    /\ wprop' = [wprop EXCEPT ![w] = NoProp]
    /\ UNCHANGED <<nonFeedVars, clock, archive, current, firstCommitted,
                   lastCommitted>>

(***************************************************************************)
(* FetchAndSave: the walk of one feed document, item by item.              *)
(***************************************************************************)
DocA == [src |-> FeedA, items |-> <<Item1, Item4, Item3>>]
DocB == [src |-> FeedB, items |-> <<Item4, Item2>>]
FeedDocs == {DocA, DocB}

\* Mutant of AfterItemError: the error of processItem is returned.
AfterItemErrorReturns == "return"

\* FetchAndSave lines 46-49: the error of processItem is logged, the loop
\* continues.
AfterItemError == "continue"

OrdInit ==
    /\ fdoc = [w \in Workers |-> {}]
    /\ fnext = [w \in Workers |-> 0]
    /\ fseen = [w \in Workers |-> <<>>]

OrdOthers == <<nonOrdVars, clock, archive, current, txArchive, txCurrent, wprop,
               firstCommitted, lastCommitted>>

\* FetchAndSave lines 33-42: the feed is fetched and parsed.
FetchFeed(w) ==
    /\ wpc[w] = "idle"
    /\ fdoc[w] = {}
    /\ \E d \in FeedDocs : fdoc' = [fdoc EXCEPT ![w] = {d}]
    /\ fnext' = [fnext EXCEPT ![w] = 0]
    /\ fseen' = [fseen EXCEPT ![w] = <<>>]
    /\ UNCHANGED <<OrdOthers, wpc, wparams, wtxStart>>

\* FetchAndSave lines 37-40: the fetch or the parse fails, the error is
\* returned.
FetchFeedFails(w) ==
    /\ wpc[w] = "idle"
    /\ fdoc[w] = {}
    /\ UNCHANGED vars

\* The loop hands the next item to processItem, which fails before it has
\* a transaction: the item has neither GUID nor link (lines 66-72), or
\* c.db.Begin fails (lines 100-103).
ItemFailsEarly(w, noIdentity) ==
    /\ wpc[w] = "idle"
    /\ \E d \in fdoc[w] :
        /\ fnext[w] < Len(d.items)
        /\ (ResolveGuid(d.items[fnext[w] + 1]) = "") = noIdentity
        /\ fseen' = [fseen EXCEPT ![w] = Append(@, d.items[fnext[w] + 1].Title)]
    /\ fnext' = [fnext EXCEPT ![w] = @ + 1]
    /\ fdoc' = IF AfterItemError = "continue" THEN fdoc
               ELSE [fdoc EXCEPT ![w] = {}]
    /\ UNCHANGED <<OrdOthers, wpc, wparams, wtxStart>>

ItemRejected(w) == ItemFailsEarly(w, TRUE)

ItemBeginFails(w) == ItemFailsEarly(w, FALSE)

\* The loop hands the next item to processItem, which resolves the fields
\* and opens its transaction (lines 58-104).
ItemBegin(w) ==
    /\ wpc[w] = "idle"
    /\ \E d \in fdoc[w] :
        /\ fnext[w] < Len(d.items)
        /\ ResolveGuid(d.items[fnext[w] + 1]) # ""
        /\ wparams' = [wparams EXCEPT
                          ![w] = Params([src |-> d.src, item |-> d.items[fnext[w] + 1]],
                                        clock)]
        /\ fseen' = [fseen EXCEPT ![w] = Append(@, d.items[fnext[w] + 1].Title)]
    /\ fnext' = [fnext EXCEPT ![w] = @ + 1]
    /\ wpc' = [wpc EXCEPT ![w] = "began"]
    /\ wtxStart' = [wtxStart EXCEPT ![w] = clock]
    /\ UNCHANGED <<OrdOthers, fdoc>>

\* FetchAndSave lines 51-54: the loop is over, nil is returned.
FeedDone(w) ==
    /\ wpc[w] = "idle"
    /\ \E d \in fdoc[w] : fnext[w] = Len(d.items)
    /\ fdoc' = [fdoc EXCEPT ![w] = {}]
    /\ fnext' = [fnext EXCEPT ![w] = 0]
    /\ fseen' = [fseen EXCEPT ![w] = <<>>]
    /\ UNCHANGED <<OrdOthers, wpc, wparams, wtxStart>>

OrdNext ==
    \/ \E w \in Workers : FetchFeed(w)
    \/ \E w \in Workers : FetchFeedFails(w)
    \/ \E w \in Workers : ItemRejected(w)
    \/ \E w \in Workers : ItemBeginFails(w)
    \/ \E w \in Workers : ItemBegin(w)
    \/ \E w \in Workers : ExecArchive(w)
    \/ \E w \in Workers : ExecCurrent(w)
    \/ \E w \in Workers : CommitTx(w)
    \/ \E w \in Workers : RollbackTx(w)
    \/ \E w \in Workers : FeedDone(w)

FeedNext ==
    \/ Tick
    \/ \E w \in Workers : RejectItem(w)
    \/ \E w \in Workers : BeginTx(w)
    \/ \E w \in Workers : BeginFails(w)
    \/ \E w \in Workers : ExecArchive(w)
    \/ \E w \in Workers : ExecCurrent(w)
    \/ \E w \in Workers : CommitTx(w)
    \/ \E w \in Workers : RollbackTx(w)

(***************************************************************************)
(* Timestamps and their RFC3339 text.  Instants are ticks since            *)
(* 2000-01-01T00:00:00Z.  A string is either RFC3339 text (whole seconds,  *)
(* a sub-second part in ticks, and the spelling of its zone) or text that  *)
(* time.Parse(time.RFC3339, .) rejects.                                    *)
(***************************************************************************)
Day == 24 * 3600 * TicksPerSec
MaxWindow == MaxWindowDays * Day

TimeStr(secs, frac, zone) ==
    [kind |-> "rfc3339", secs |-> secs, frac |-> frac, text |-> zone]
RawStr(x) == [kind |-> "raw", secs |-> 0, frac |-> 0, text |-> x]

\* time.Parse(time.RFC3339, s): whether it succeeds, and the instant it yields.
ParsesRFC3339(s) == s.kind = "rfc3339"
ParseRFC3339(s) == s.secs * TicksPerSec + s.frac

\* Mutant of FormatRFC3339: rounds up instead of dropping the sub-second part.
FormatRFC3339Ceil(t) == TimeStr((t + TicksPerSec - 1) \div TicksPerSec, 0, "Z")

\* t.Format(time.RFC3339) of a UTC time: the sub-second part is dropped.
FormatRFC3339(t) == TimeStr(t \div TicksPerSec, 0, "Z")

Sources == {"NVD", "CISA-KEV"}
CveIds == {"CVE-1", "CVE-2"}
EnrichedKeys == CveIds \X Sources

RowsOfKey(rel, k) == {r \in rel : r.cve_id = k[1] /\ r.source = k[2]}

(***************************************************************************)
(* Upstream NVD records: the "cve" object of a vulnerability, of which     *)
(* NvdCveItem decodes id, lastModified and metrics.                        *)
(***************************************************************************)
Metrics(v31, v30) ==
    [present |-> TRUE, valid |-> TRUE, v31 |-> v31, v30 |-> v30, v2 |-> <<>>]
AbsentMetrics ==
    [present |-> FALSE, valid |-> TRUE, v31 |-> <<>>, v30 |-> <<>>, v2 |-> <<>>]

NvdRec1 == [id |-> "CVE-1", lastModified |-> TimeStr(5, 0, "Z"),
            metrics |-> Metrics(<<98>>, <<75>>), rest |-> "descriptions-1"]
NvdRec2 == [id |-> "CVE-1", lastModified |-> RawStr("2023-01-01T00:00:00.000"),
            metrics |-> Metrics(<<>>, <<50>>), rest |-> "descriptions-2"]
NvdRec3 == [id |-> "CVE-2", lastModified |-> TimeStr(7, 0, "Z"),
            metrics |-> AbsentMetrics, rest |-> "descriptions-3"]
NvdRecords == {NvdRec1, NvdRec2, NvdRec3}

\* A page of a 200 response: at most PageSize records, and totalResults.
NvdPages ==
    {p \in UNION {[1..n -> NvdRecords] : n \in 0..PageSize} :
        \A i, j \in 1..Len(p) : p[i] = p[j] => i = j}
NvdTotals == 0..MaxTotal

\* json.Unmarshal into NvdCveItem, then json.Marshal(item.Cve).
MarshalCve(rec) ==
    [id |-> rec.id, lastModified |-> rec.lastModified, metrics |-> rec.metrics]

\* Mutant of ExtractCvssScore: v3.0 is preferred to v3.1.
ExtractCvssScoreV30First(m) ==
    IF ~m.present \/ ~m.valid THEN <<>>
    ELSE IF Len(m.v30) > 0 THEN <<m.v30[1]>>
    ELSE IF Len(m.v31) > 0 THEN <<m.v31[1]>>
    ELSE <<>>

\* extractCvssScore: v3.1 first, then v3.0, else nil.
ExtractCvssScore(m) ==
    IF ~m.present \/ ~m.valid THEN <<>>
    ELSE IF Len(m.v31) > 0 THEN <<m.v31[1]>>
    ELSE IF Len(m.v30) > 0 THEN <<m.v30[1]>>
    ELSE <<>>

\* saveBatch lines 229-233: the modified column of a record.
NvdModified(rec, now) ==
    IF ParsesRFC3339(rec.lastModified) THEN ParseRFC3339(rec.lastModified) ELSE now

\* saveBatch lines 221-249: the row queued for one record.
NvdRow(rec, now) ==
    [cve_id    |-> rec.id,
     source    |-> "NVD",
     json      |-> MarshalCve(rec),
     cvss_base |-> ExtractCvssScore(rec.metrics),
     epss      |-> <<>>,
     modified  |-> NvdModified(rec, now)]

NvdSetColumns == {"json", "cvss_base", "modified"}
KevSetColumns == {"json", "modified"}

\* INSERT INTO cve_enriched ... ON CONFLICT (cve_id, source) DO UPDATE SET cols
EnrichedUpsert(rel, row, cols) ==
    LET olds == RowsOfKey(rel, <<row.cve_id, row.source>>)
    IN IF olds # {}
       THEN (rel \ olds) \cup
            {[f \in DOMAIN old |-> IF f \in cols THEN row[f] ELSE old[f]] : old \in olds}
       ELSE rel \cup {row}

\* Mutant of ApplyBatch: the batch is acknowledged but not applied.
ApplyBatchLost(rel, rows, cols) == rel

\* pgx SendBatch: the queued statements run in order in one implicit transaction.
RECURSIVE ApplyBatch(_, _, _)
ApplyBatch(rel, rows, cols) ==
    IF rows = <<>> THEN rel
    ELSE ApplyBatch(EnrichedUpsert(rel, Head(rows), cols), Tail(rows), cols)

\* saveBatch lines 221-226, upsertVulns lines 142-146: the records that are
\* queued, in order; those whose json.Marshal fails (dropped) are skipped.
Queued(recs, dropped) ==
    LET keep == {i \in 1..Len(recs) : i \notin dropped}
        nth(k) == CHOOSE i \in keep : Cardinality({j \in keep : j < i}) = k - 1
    IN [k \in 1..Cardinality(keep) |-> recs[nth(k)]]

\* saveBatch lines 255-260, upsertVulns lines 161-166: Exec is called once
\* per record of the input on a batch that holds the queued statements; pgx
\* answers an Exec beyond the last queued statement with an error.
BatchExecOk(queued, calls) == calls <= queued

\* The error of the Exec call that finds no statement left.
NoMoreResults == "no more results in batch"

IdsOf(page) == {page[i].id : i \in 1..Len(page)}

\* The record of key k delivered last by a batch, if the batch has one.
LastDelivered(old, page, id) ==
    LET idx == {i \in 1..Len(page) : page[i].id = id}
    IN IF idx = {} THEN old
       ELSE {page[CHOOSE i \in idx : \A j \in idx : j <= i]}

(***************************************************************************)
(* The cursor relation.                                                    *)
(***************************************************************************)
DefaultCursor == TimeStr(0, 0, "Z")

\* NvdRunner.getCursor: the stored cursor, or 2000-01-01T00:00:00Z.
NvdGetCursor ==
    IF ingestState["NVD"] = {} THEN DefaultCursor
    ELSE CHOOSE c \in ingestState["NVD"] : TRUE

\* Mutant of CursorStart: the stored cursor never parses.
CursorStartReset(cursor) == 0

\* Run lines 74-78: the start of the walk.
CursorStart(cursor) ==
    IF ParsesRFC3339(cursor) THEN ParseRFC3339(cursor) ELSE 0

\* Mutant of SetCursor: an existing cursor row is left as it is.
SetCursorInsertOnly(state, source, cursor) ==
    IF state[source] = {} THEN [state EXCEPT ![source] = {cursor}] ELSE state

\* setCursor: INSERT ... ON CONFLICT (source) DO UPDATE SET cursor.
SetCursor(state, source, cursor) == [state EXCEPT ![source] = {cursor}]

\* Mutant of WindowEnd: the window is 90 days long.
WindowEndShort(start, now) ==
    IF start + 90 * Day > now THEN now ELSE start + 90 * Day

\* Mutant of WindowEnd: the window is not clipped to 120 days.
WindowEndUnclipped(start, now) == now

\* Run lines 85-88: the end of the window that starts at start.
WindowEnd(start, now) ==
    IF start + MaxWindow > now THEN now ELSE start + MaxWindow

\* processWindow lines 114-117: the bounds of a window as the query carries them.
WindowQuery(start, end) == <<FormatRFC3339(start), FormatRFC3339(end)>>

\* Mutant of NextBackoff: the doubling is not capped.
NextBackoffUncapped(b) == b * 2

\* fetchWithRetry lines 206-210: the backoff after a 429 or 503.
NextBackoff(b) == IF b * 2 > MaxBackoff THEN MaxBackoff ELSE b * 2

\* fetchWithRetry lines 191-196: after a network error the backoff is slept
\* and kept as it is.  The seconds slept and the next backoff.
AfterNetError(b) == <<b, b>>

\* fetchWithRetry line 214: the error for a status other than 200, 429, 503.
UnexpectedStatus == "unexpected status code"

\* Mutant of AfterBadStatus: the page loop is left and the window counts as
\* done.
AfterBadStatusBreaks == "cursor"

\* processWindow lines 135-138 and Run lines 92-94: the error of
\* fetchWithRetry ends processWindow and Run.
AfterBadStatus == "idle"

\* Mutant of AfterSaveError: the error of saveBatch is ignored.
AfterSaveErrorIgnored == "cursor"

\* processWindow lines 151-153 and Run lines 92-94: a failed saveBatch ends Run.
AfterSaveError == "idle"

\* No request of the cycle has been answered yet.
NoRequestYet == -1

\* processWindow lines 163-170: the delay between two pages, in tenths of a
\* second, 600 ms with an API key and 6 s without.
RateDelay(hasKey) == IF hasKey THEN 6 ELSE 60

(***************************************************************************)
(* Actions of the NVD runner.                                              *)
(***************************************************************************)
NvdInit ==
    /\ nvdPc = "idle"
    /\ nvdNow = 0
    /\ startDt = 0
    /\ endDt = 0
    /\ startIndex = 0
    /\ backoff = InitialBackoff
    /\ retries = 0
    /\ nvdResult = "none"
    /\ cycleCursor = 0
    /\ cycleWindows = <<>>
    /\ winFetched = {}
    /\ winTotal = 0
    /\ pause = NoRequestYet
    /\ lastDone = {}

DbInit ==
    /\ enriched = {}
    /\ ingestState = [s \in Sources |-> {}]
    /\ lastUpserted = [k \in EnrichedKeys |-> {}]

\* The instants at which the collectors are observed.
CveInstants == {1, TicksPerSec + 1, MaxWindow + 1, 213 * Day}

\* The wall clock advances.
CveClockAdvance ==
    /\ \E t \in CveInstants : t > clock /\ clock' = t
    /\ UNCHANGED <<feedVars, cfgVars, sysVars, ctxVars, epssVars, dbVars, nvdVars, kevVars>>

\* The context of the runners is cancelled (shutdown signal).  From then on
\* every call that takes the context fails: requests built with it, and
\* database calls.
CancelContext ==
    /\ ~cancelled
    /\ cancelled' = TRUE
    /\ UNCHANGED <<clock, feedVars, cfgVars, sysVars, epssVars, dbVars, nvdVars, kevVars>>

\* Run lines 63-66: the runner is disabled.
NvdRunDisabled ==
    /\ nvdPc = "idle"
    /\ ~nvdEnabled
    /\ UNCHANGED vars

\* Run returns: the locals go out of scope.  A cycle that did not complete
\* leaves no record of its walk.
NvdReturn(result) ==
    /\ nvdPc' = "idle"
    /\ nvdResult' = result
    /\ startDt' = 0
    /\ endDt' = 0
    /\ startIndex' = 0
    /\ backoff' = InitialBackoff
    /\ retries' = 0
    /\ winFetched' = {}
    /\ winTotal' = 0
    /\ pause' = NoRequestYet
    /\ nvdNow' = IF result = "ok" THEN nvdNow ELSE 0
    /\ cycleCursor' = IF result = "ok" THEN cycleCursor ELSE 0
    /\ cycleWindows' = IF result = "ok" THEN cycleWindows ELSE <<>>
    /\ UNCHANGED <<clock, feedVars, cfgVars, sysVars, ctxVars, epssVars, dbVars, kevVars,
                   lastDone>>

\* Run lines 68-80: read the cursor, parse it, read now.
NvdRunStart ==
    /\ nvdPc = "idle"
    /\ nvdEnabled
    /\ ~cancelled
    /\ startDt' = CursorStart(NvdGetCursor)
    /\ cycleCursor' = CursorStart(NvdGetCursor)
    /\ nvdNow' = clock
    /\ nvdPc' = "loop"
    /\ nvdResult' = "running"
    /\ cycleWindows' = <<>>
    /\ UNCHANGED <<clock, feedVars, cfgVars, sysVars, ctxVars, epssVars, dbVars, kevVars,
                   endDt, startIndex, backoff, retries,
                   winFetched, winTotal, pause, lastDone>>

\* Run lines 69-72: getCursor fails.
NvdGetCursorFails ==
    /\ nvdPc = "idle"
    /\ nvdEnabled
    /\ NvdReturn("error")

\* Run lines 84-90 and processWindow lines 109-118: the next window begins.
NvdNextWindow ==
    /\ nvdPc = "loop"
    /\ startDt < nvdNow
    /\ endDt' = WindowEnd(startDt, nvdNow)
    /\ startIndex' = 0
    /\ backoff' = InitialBackoff
    /\ retries' = 0
    /\ nvdPc' = "fetch"
    /\ cycleWindows' = Append(cycleWindows, <<startDt, endDt'>>)
    /\ winFetched' = {}
    /\ winTotal' = 0
    /\ UNCHANGED <<clock, feedVars, cfgVars, sysVars, ctxVars, epssVars, dbVars, kevVars,
                   nvdNow, startDt, nvdResult,
                   cycleCursor, pause, lastDone>>

\* Run lines 84, 104-105: the walk has reached now.
NvdRunDone ==
    /\ nvdPc = "loop"
    /\ ~(startDt < nvdNow)
    /\ NvdReturn("ok")

\* fetchWithRetry lines 203-212: 429 or 503, sleep, double the backoff, retry.
NvdFetchThrottled ==
    /\ nvdPc = "fetch"
    /\ ~cancelled
    /\ retries < MaxRetries
    /\ backoff' = NextBackoff(backoff)
    /\ retries' = retries + 1
    /\ pause' = backoff * 10
    /\ UNCHANGED <<clock, feedVars, cfgVars, sysVars, ctxVars, epssVars, dbVars, kevVars,
                   nvdPc, nvdNow, startDt, endDt,
                   startIndex, nvdResult, cycleCursor, cycleWindows, winFetched,
                   winTotal, lastDone>>

\* fetchWithRetry lines 191-196: a network error, sleep the backoff, retry.
NvdFetchNetError ==
    /\ nvdPc = "fetch"
    /\ pause' = AfterNetError(backoff)[1] * 10
    /\ backoff' = AfterNetError(backoff)[2]
    /\ UNCHANGED <<clock, feedVars, cfgVars, sysVars, ctxVars, epssVars, dbVars, kevVars,
                   nvdPc, nvdNow, startDt, endDt, startIndex, retries, nvdResult,
                   cycleCursor, cycleWindows, winFetched, winTotal, lastDone>>

\* fetchWithRetry line 214, processWindow lines 136-138: any other status.
NvdFetchBadStatus ==
    /\ nvdPc = "fetch"
    /\ ~cancelled
    /\ IF AfterBadStatus = "idle"
       THEN NvdReturn(UnexpectedStatus)
       ELSE /\ nvdPc' = AfterBadStatus
            /\ nvdResult' = UnexpectedStatus
            /\ UNCHANGED <<clock, feedVars, cfgVars, sysVars, ctxVars, epssVars, dbVars,
                           kevVars, nvdNow, startDt, endDt, startIndex, backoff, retries,
                           cycleCursor, cycleWindows, winFetched, winTotal, pause,
                           lastDone>>

\* processWindow lines 141-144: the body of a 200 does not parse.
NvdParseFails ==
    /\ nvdPc = "fetch"
    /\ ~cancelled
    /\ NvdReturn("error")

\* processWindow lines 146-148: a page without records ends the window.
NvdEmptyPage ==
    /\ nvdPc = "fetch"
    /\ ~cancelled
    /\ \E total \in NvdTotals : winTotal' = total
    /\ pause' = 0
    /\ nvdPc' = "cursor"
    /\ UNCHANGED <<clock, feedVars, cfgVars, sysVars, ctxVars, epssVars, dbVars, kevVars,
                   nvdNow, startDt, endDt,
                   startIndex, backoff, retries, nvdResult, cycleCursor, cycleWindows,
                   winFetched, lastDone>>

\* Mutant of NextStartIndex: the index does not move.
NextStartIndexStuck(index, page) == index

\* processWindow line 158: startIndex += len(resp.Vulnerabilities).
NextStartIndex(index, page) == index + Len(page)

\* processWindow lines 135-171 with saveBatch succeeding: the page is written,
\* startIndex advances, and the window ends or the next page is requested.
NvdSavePage ==
    /\ nvdPc = "fetch"
    /\ ~cancelled
    /\ \E page \in NvdPages \ {<<>>} : \E total \in NvdTotals :
        /\ enriched' = ApplyBatch(enriched,
                                  [i \in 1..Len(page) |-> NvdRow(page[i], clock)],
                                  NvdSetColumns)
        /\ lastUpserted' =
              [k \in EnrichedKeys |->
                  IF k[2] = "NVD" THEN LastDelivered(lastUpserted[k], page, k[1])
                  ELSE lastUpserted[k]]
        /\ winFetched' = winFetched \cup IdsOf(page)
        /\ startIndex' = NextStartIndex(startIndex, page)
        /\ winTotal' = IF NextStartIndex(startIndex, page) >= total THEN total ELSE 0
        /\ nvdPc' = IF NextStartIndex(startIndex, page) >= total THEN "cursor" ELSE "fetch"
        /\ pause' \in IF NextStartIndex(startIndex, page) >= total THEN {0}
                     ELSE {RateDelay(hasKey) : hasKey \in BOOLEAN}
    /\ backoff' = InitialBackoff
    /\ retries' = 0
    /\ UNCHANGED <<clock, feedVars, cfgVars, sysVars, ctxVars, epssVars, ingestState, kevVars,
                   nvdNow, startDt, endDt,
                   nvdResult, cycleCursor, cycleWindows, lastDone>>

\* processWindow lines 151-153: saveBatch fails, its batch is rolled back.
NvdSaveFails ==
    /\ nvdPc = "fetch"
    /\ ~cancelled
    /\ IF AfterSaveError = "idle"
       THEN NvdReturn("error")
       ELSE /\ nvdPc' = AfterSaveError
            /\ \E page \in NvdPages \ {<<>>} :
                 winFetched' = winFetched \cup IdsOf(page)
            /\ UNCHANGED <<clock, feedVars, cfgVars, sysVars, ctxVars, epssVars, dbVars,
                           kevVars, nvdNow, startDt,
                           endDt, startIndex, backoff, retries, nvdResult, cycleCursor,
                           cycleWindows, winTotal, pause, lastDone>>

\* saveBatch lines 221-226 and 255-260: json.Marshal fails for the records
\* at the indices in dropped.  The queued statements are executed and
\* committed, the Exec calls that follow them fail, saveBatch and Run return
\* the error.
NvdSaveDropping(page, dropped) ==
    /\ nvdPc = "fetch"
    /\ ~cancelled
    /\ ~BatchExecOk(Len(Queued(page, dropped)), Len(page))
    /\ enriched' = ApplyBatch(enriched,
                              [i \in 1..Len(Queued(page, dropped)) |->
                                  NvdRow(Queued(page, dropped)[i], clock)],
                              NvdSetColumns)
    /\ lastUpserted' =
          [k \in EnrichedKeys |->
              IF k[2] = "NVD"
              THEN LastDelivered(lastUpserted[k], Queued(page, dropped), k[1])
              ELSE lastUpserted[k]]
    /\ nvdPc' = AfterSaveError
    /\ nvdResult' = NoMoreResults
    /\ startDt' = 0
    /\ endDt' = 0
    /\ startIndex' = 0
    /\ backoff' = InitialBackoff
    /\ retries' = 0
    /\ winFetched' = {}
    /\ winTotal' = 0
    /\ pause' = NoRequestYet
    /\ nvdNow' = 0
    /\ cycleCursor' = 0
    /\ cycleWindows' = <<>>
    /\ UNCHANGED <<clock, feedVars, cfgVars, sysVars, ctxVars, epssVars, ingestState,
                   kevVars, lastDone>>

NvdSaveDropsRecord ==
    \E page \in NvdPages \ {<<>>} : \E i \in 1..Len(page) :
        NvdSaveDropping(page, {i})

(***************************************************************************)
(* saveBatch over the metrics blocks an NVD record can carry: the lists    *)
(* cvssMetricV31, cvssMetricV30 and cvssMetricV2 of base scores (in        *)
(* tenths), a block that is absent, and one json.Unmarshal rejects.        *)
(***************************************************************************)
BaseScores == {0, 50, 98}

ScoreLists == UNION {[1..n -> BaseScores] : n \in 0..MaxMetrics}

InvalidMetrics ==
    [present |-> TRUE, valid |-> FALSE, v31 |-> <<98>>, v30 |-> <<>>, v2 |-> <<>>]

MetricsBlocks ==
    {AbsentMetrics, InvalidMetrics} \cup
    {[present |-> TRUE, valid |-> TRUE, v31 |-> a, v30 |-> b, v2 |-> <<>>] :
        a \in ScoreLists, b \in ScoreLists} \cup
    {[present |-> TRUE, valid |-> TRUE, v31 |-> <<>>, v30 |-> b, v2 |-> <<70>>] :
        b \in ScoreLists}

ScoredRecord(id, m) ==
    [id |-> id, lastModified |-> TimeStr(5, 0, "Z"), metrics |-> m,
     rest |-> "descriptions"]

\* saveBatch lines 218-263 on a page of one record.
NvdSaveRecord(id, m) ==
    /\ enriched' = ApplyBatch(enriched, <<NvdRow(ScoredRecord(id, m), clock)>>,
                              NvdSetColumns)
    /\ lastUpserted' =
          [k \in EnrichedKeys |->
              IF k[2] = "NVD"
              THEN LastDelivered(lastUpserted[k], <<ScoredRecord(id, m)>>, k[1])
              ELSE lastUpserted[k]]
    /\ UNCHANGED <<clock, feedVars, cfgVars, sysVars, ctxVars, epssVars, ingestState,
                   nvdVars, kevVars>>

ScoreNext == \E m \in MetricsBlocks : NvdSaveRecord("CVE-1", m)

\* Run lines 96-101: the window's end becomes the cursor, the walk moves on.
NvdSetCursor ==
    /\ nvdPc = "cursor"
    /\ ~cancelled
    /\ ingestState' = SetCursor(ingestState, "NVD", FormatRFC3339(endDt))
    /\ lastDone' = {<<startDt, endDt>>}
    /\ winTotal' = 0
    /\ startDt' = endDt
    /\ nvdPc' = "loop"
    /\ UNCHANGED <<clock, feedVars, cfgVars, sysVars, ctxVars, epssVars, enriched,
                   lastUpserted, kevVars, nvdNow, endDt,
                   startIndex, backoff, retries, nvdResult, cycleCursor, cycleWindows,
                   winFetched, pause>>

\* Run lines 97-99: setCursor fails.
NvdSetCursorFails ==
    /\ nvdPc = "cursor"
    /\ NvdReturn("error")

\* The process stops (crash, kill) wherever the cycle is.
NvdStop ==
    /\ nvdPc # "idle"
    /\ NvdReturn("stopped")

(***************************************************************************)
(* The KEV runner.                                                         *)
(***************************************************************************)
EmptyStr == RawStr("")

\* Upstream entries of the catalog; KevVuln decodes the fields but "rest".
KevVuln1 == [cveID |-> "CVE-1", vendorProject |-> "acme", dueDate |-> "2024-02-01",
             rest |-> "knownRansomwareCampaignUse"]
KevVuln1b == [cveID |-> "CVE-1", vendorProject |-> "acme", dueDate |-> "2024-03-01",
              rest |-> "knownRansomwareCampaignUse"]
KevVuln2 == [cveID |-> "CVE-2", vendorProject |-> "globex", dueDate |-> "2024-03-01",
             rest |-> "cwes"]

KevCatOld == [catalogVersion |-> RawStr("2024.01.01"),
              dateReleased |-> TimeStr(10, 0, "Z"),
              vulnerabilities |-> <<KevVuln1>>]
KevCatNew == [catalogVersion |-> RawStr("2024.02.01"),
              dateReleased |-> TimeStr(20, 1, "+00:00"),
              vulnerabilities |-> <<KevVuln1b, KevVuln2>>]
KevCatNoDate == [catalogVersion |-> RawStr("2024.03.01"),
                 dateReleased |-> EmptyStr,
                 vulnerabilities |-> <<KevVuln1>>]
\* A release timestamp that is not empty and that time.Parse rejects.
KevCatBadDate == [catalogVersion |-> RawStr("2024.04.01"),
                  dateReleased |-> RawStr("2024-04-01"),
                  vulnerabilities |-> <<KevVuln2>>]
KevCatalogs == {KevCatOld, KevCatNew, KevCatNoDate, KevCatBadDate}

\* json.Marshal of a decoded KevVuln.
MarshalKev(v) == [cveID |-> v.cveID, vendorProject |-> v.vendorProject,
                  dueDate |-> v.dueDate]

\* Run lines 73-81: the cursor a catalog stands for.
KevCursorOf(cat) ==
    LET c == IF cat.dateReleased = EmptyStr THEN cat.catalogVersion
             ELSE cat.dateReleased
    IN IF ParsesRFC3339(c) THEN FormatRFC3339(ParseRFC3339(c)) ELSE c

\* KevRunner.getCursor: the stored cursor, or "".
KevGetCursor ==
    IF ingestState["CISA-KEV"] = {} THEN EmptyStr
    ELSE CHOOSE c \in ingestState["CISA-KEV"] : TRUE

\* Mutant of KevCursorUnchanged: the stored cursor is never recognised.
KevCursorAlwaysNew(existing, cursor) == FALSE

\* Run lines 88-91: the test that ends the cycle before any write.
KevCursorUnchanged(existing, cursor) == existing = cursor

\* upsertVulns lines 135-138: the modified column of the whole batch.
KevModified(dateReleased, now) ==
    IF ParsesRFC3339(dateReleased) THEN ParseRFC3339(dateReleased) ELSE now

\* upsertVulns lines 142-156: the row queued for one entry.
KevRow(v, dateReleased, now) ==
    [cve_id    |-> v.cveID,
     source    |-> "CISA-KEV",
     json      |-> MarshalKev(v),
     cvss_base |-> <<>>,
     epss      |-> <<>>,
     modified  |-> KevModified(dateReleased, now)]

KevDelivered(cat) ==
    [i \in 1..Len(cat.vulnerabilities) |->
        [id |-> cat.vulnerabilities[i].cveID, vuln |-> cat.vulnerabilities[i],
         dateReleased |-> cat.dateReleased]]

KevReturn(result) ==
    /\ kevPc' = "idle"
    /\ kevResult' = result
    /\ kevCatalog' = {}
    /\ UNCHANGED <<clock, feedVars, cfgVars, sysVars, ctxVars, epssVars, dbVars, nvdVars>>

\* Run lines 55-58: the runner is disabled.
KevRunDisabled ==
    /\ kevPc = "idle"
    /\ ~kevEnabled
    /\ UNCHANGED vars

\* Run lines 66-70 and fetchCatalog: the catalog cannot be fetched or decoded.
KevFetchFails ==
    /\ kevPc = "idle"
    /\ kevEnabled
    /\ KevReturn("error")

\* Run lines 83-86: getCursor fails.
KevGetCursorFails ==
    /\ kevPc = "idle"
    /\ kevEnabled
    /\ KevReturn("error")

\* Run lines 66-91: the catalog's cursor equals the stored one, nothing to do.
KevUpToDate ==
    /\ kevPc = "idle"
    /\ kevEnabled
    /\ ~cancelled
    /\ \E cat \in KevCatalogs : KevCursorUnchanged(KevGetCursor, KevCursorOf(cat))
    /\ KevReturn("uptodate")

\* Run lines 66-93: a catalog whose cursor differs from the stored one.
KevNewCatalog ==
    /\ kevPc = "idle"
    /\ kevEnabled
    /\ ~cancelled
    /\ \E cat \in KevCatalogs :
        /\ ~KevCursorUnchanged(KevGetCursor, KevCursorOf(cat))
        /\ kevCatalog' = {cat}
    /\ kevPc' = "upsert"
    /\ kevResult' = "running"
    /\ UNCHANGED <<clock, feedVars, cfgVars, sysVars, ctxVars, epssVars, dbVars, nvdVars>>

\* Run line 96, upsertVulns: every entry is upserted in one batch.
KevUpsert ==
    /\ kevPc = "upsert"
    /\ ~cancelled
    /\ \E cat \in kevCatalog :
        /\ enriched' =
              ApplyBatch(enriched,
                         [i \in 1..Len(cat.vulnerabilities) |->
                            KevRow(cat.vulnerabilities[i], cat.dateReleased, clock)],
                         KevSetColumns)
        /\ lastUpserted' =
              [k \in EnrichedKeys |->
                  IF k[2] = "CISA-KEV"
                  THEN LastDelivered(lastUpserted[k], KevDelivered(cat), k[1])
                  ELSE lastUpserted[k]]
    /\ kevPc' = "cursor"
    /\ UNCHANGED <<clock, feedVars, cfgVars, sysVars, ctxVars, epssVars, ingestState, nvdVars,
                   kevCatalog,
                   kevResult>>

\* upsertVulns lines 142-146 and 161-166: json.Marshal fails for the entries
\* at the indices in dropped.  The queued statements are executed and
\* committed, the Exec calls that follow them fail, upsertVulns and Run
\* return the error.
KevUpsertDropping(cat, dropped) ==
    /\ kevPc = "upsert"
    /\ ~cancelled
    /\ cat \in kevCatalog
    /\ ~BatchExecOk(Len(Queued(cat.vulnerabilities, dropped)), Len(cat.vulnerabilities))
    /\ enriched' =
          ApplyBatch(enriched,
                     [i \in 1..Len(Queued(cat.vulnerabilities, dropped)) |->
                        KevRow(Queued(cat.vulnerabilities, dropped)[i],
                               cat.dateReleased, clock)],
                     KevSetColumns)
    /\ lastUpserted' =
          [k \in EnrichedKeys |->
              IF k[2] = "CISA-KEV"
              THEN LastDelivered(lastUpserted[k],
                                 KevDelivered([cat EXCEPT !.vulnerabilities =
                                     Queued(cat.vulnerabilities, dropped)]),
                                 k[1])
              ELSE lastUpserted[k]]
    /\ kevPc' = "idle"
    /\ kevResult' = NoMoreResults
    /\ kevCatalog' = {}
    /\ UNCHANGED <<clock, feedVars, cfgVars, sysVars, ctxVars, epssVars, ingestState,
                   nvdVars>>

KevUpsertDropsRecord ==
    \E cat \in KevCatalogs : \E i \in 1..Len(cat.vulnerabilities) :
        KevUpsertDropping(cat, {i})

\* Run lines 96-98: the batch fails and is rolled back.
KevUpsertFails ==
    /\ kevPc = "upsert"
    /\ KevReturn("error")

\* Run lines 101-106: the catalog's cursor is stored, the cycle is complete.
KevSetCursor ==
    /\ kevPc = "cursor"
    /\ ~cancelled
    /\ \E cat \in kevCatalog :
        ingestState' = SetCursor(ingestState, "CISA-KEV", KevCursorOf(cat))
    /\ kevPc' = "idle"
    /\ kevResult' = "ok"
    /\ kevCatalog' = {}
    /\ UNCHANGED <<clock, feedVars, cfgVars, sysVars, ctxVars, epssVars, enriched,
                   lastUpserted, nvdVars>>

\* Run lines 101-103: setCursor fails.
KevSetCursorFails ==
    /\ kevPc = "cursor"
    /\ KevReturn("error")

\* The process stops (crash, kill) wherever the cycle is.
KevStop ==
    /\ kevPc # "idle"
    /\ KevReturn("stopped")

KevInit ==
    /\ kevPc = "idle"
    /\ kevCatalog = {}
    /\ kevResult = "none"

(***************************************************************************)
(* The EPSS runner.                                                        *)
(***************************************************************************)
\* The text of a date, "2006-01-02", or text that time.Parse rejects.
DateOf(year, month, day) ==
    [kind |-> "date", year |-> year, month |-> month, day |-> day, text |-> ""]
DateStr(month, day) == DateOf(2025, month, day)
BadDateStr(x) == [kind |-> "raw", year |-> 0, month |-> 0, day |-> 0, text |-> x]
NoDate == BadDateStr("")

\* The text of a number, as pgx converts it to NUMERIC (hundredths).
NumStr(n) == [valid |-> TRUE, num |-> n]

EpssRec(cve, score, date) ==
    [cve |-> cve, epss |-> NumStr(score), percentile |-> NumStr(score), date |-> date]

\* The data sets the upstream publishes, one per day.
EpssDayA == <<EpssRec("CVE-1", 99, DateStr(1, 1)), EpssRec("CVE-2", 11, DateStr(1, 1)),
              EpssRec("CVE-3", 50, DateStr(1, 1))>>
EpssDayB == <<EpssRec("CVE-1", 98, DateStr(2, 1))>>
EpssDayBad == <<EpssRec("CVE-1", 99, BadDateStr("01/01/2100"))>>
\* The upstream publishes the next day while the cycle pages through: the
\* first record is of 31 December, the second of 1 January.
EpssDayRoll == <<EpssRec("CVE-1", 97, DateOf(2025, 12, 31)),
                 EpssRec("CVE-2", 12, DateOf(2026, 1, 1))>>
EpssDataSets == {EpssDayA, EpssDayB, EpssDayBad, EpssDayRoll, <<>>}

Min(a, b) == IF a < b THEN a ELSE b

\* The page the upstream serves for ?limit=&offset= .
PageOf(data, offset, limit) ==
    SubSeq(data, offset + 1, Min(offset + limit, Len(data)))

RowsOfDate(rel, date) == {r \in rel : r.as_of = date}

\* Mutant of EpssExists: the gate never trips.
EpssExistsNever(rel, date) == FALSE

\* Run lines 83-94: SELECT EXISTS(SELECT 1 FROM epss_daily WHERE as_of = $1).
EpssExists(rel, date) == RowsOfDate(rel, date) # {}

\* Mutant of AddMonth: the month after December stays in the same year.
AddMonthNoRollover(year, month) == <<year, month + 1>>

\* ensurePartition line 161, startOfMonth.AddDate(0, 1, 0): time.Date
\* normalises month 13 to January of the next year.
AddMonth(year, month) ==
    IF month = 12 THEN <<year + 1, 1>> ELSE <<year, month + 1>>

\* ensurePartition lines 160-169: the partition of a date, its name
\* epss_daily_y<year>m<month> and its bounds FROM (inclusive) TO (exclusive).
PartitionOf(date) ==
    [name |-> <<date.year, date.month>>,
     from |-> <<date.year, date.month, 1>>,
     to   |-> <<AddMonth(date.year, date.month)[1],
                AddMonth(date.year, date.month)[2], 1>>]

\* The order of calendar days given as <<year, month, day>>.
DayBefore(a, b) ==
    \/ a[1] < b[1]
    \/ a[1] = b[1] /\ a[2] < b[2]
    \/ a[1] = b[1] /\ a[2] = b[2] /\ a[3] < b[3]

\* A row of the date is routed to partition p.
InPartition(date, p) ==
    /\ ~DayBefore(<<date.year, date.month, date.day>>, p.from)
    /\ DayBefore(<<date.year, date.month, date.day>>, p.to)

\* CREATE TABLE IF NOT EXISTS <name> PARTITION OF epss_daily: nothing
\* happens when a table of that name exists.
CreatePartition(parts, p) ==
    IF \E q \in parts : q.name = p.name THEN parts ELSE parts \cup {p}

\* Mutant of EpssDailyRow: the row is stored under the record's own date.
EpssDailyRowOwnDate(rec, date, now) ==
    [as_of       |-> rec.date,
     cve_id      |-> rec.cve,
     epss        |-> rec.epss.num,
     percentile  |-> rec.percentile.num,
     raw         |-> <<>>,
     inserted_at |-> now]

\* bulkInsert lines 180-190: the row copied for one record.
EpssDailyRow(rec, date, now) ==
    [as_of       |-> date,
     cve_id      |-> rec.cve,
     epss        |-> rec.epss.num,
     percentile  |-> rec.percentile.num,
     raw         |-> <<>>,
     inserted_at |-> now]

EpssRowsOf(page, date, now) ==
    {EpssDailyRow(page[i], date, now) : i \in 1..Len(page)}

\* CopyFrom succeeds when every number converts, the partition of the date
\* exists and no copied row repeats a key (as_of, cve_id).
CopyAccepted(rel, parts, page, date) ==
    /\ \E p \in parts : InPartition(date, p)
    /\ \A i \in 1..Len(page) : page[i].epss.valid /\ page[i].percentile.valid
    /\ \A i, j \in 1..Len(page) : page[i].cve = page[j].cve => i = j
    /\ \A i \in 1..Len(page) :
          ~\E r \in RowsOfDate(rel, date) : r.cve_id = page[i].cve

\* Mutant of EpssAdvance: the offset moves one record too far.
EpssAdvanceSkips(offset, page) == offset + Len(page) + 1

\* Run lines 109 and 130: offset += len(data).
EpssAdvance(offset, page) == offset + Len(page)

EpssInit ==
    /\ epssUpstream = EpssDayA
    /\ epssDaily = {}
    /\ epssPartitions = {}
    /\ epssPc = "idle"
    /\ epssDate = NoDate
    /\ epssTotal = 0
    /\ epssOffset = 0
    /\ epssPage = <<>>
    /\ epssResult = "none"
    /\ epssDone = {}

EpssOthers == <<clock, feedVars, cfgVars, sysVars, ctxVars, dbVars, nvdVars, kevVars>>

\* Run returns: the locals go out of scope.
EpssReturn(result, done) ==
    /\ epssPc' = "idle"
    /\ epssResult' = result
    /\ epssDone' = done
    /\ epssDate' = NoDate
    /\ epssTotal' = 0
    /\ epssOffset' = 0
    /\ epssPage' = <<>>
    /\ UNCHANGED <<EpssOthers, epssUpstream, epssDbVars>>

\* The upstream publishes another day's data set, between cycles.
EpssPublish ==
    /\ epssPc = "idle"
    /\ \E data \in EpssDataSets \ {epssUpstream} : epssUpstream' = data
    /\ UNCHANGED <<EpssOthers, epssDbVars, epssPc, epssDate, epssTotal, epssOffset,
                   epssPage, epssResult, epssDone>>

\* Run lines 52-55: the runner is disabled.
EpssRunDisabled ==
    /\ epssPc = "idle"
    /\ ~epssEnabled
    /\ UNCHANGED vars

\* Run lines 67-70: the fetch of page 0 fails.
EpssFetchFirstFails ==
    /\ epssPc = "idle"
    /\ epssEnabled
    /\ EpssReturn("error", {})

\* Run lines 72-75: page 0 has no record.
EpssNoData ==
    /\ epssPc = "idle"
    /\ epssEnabled
    /\ PageOf(epssUpstream, 0, EpssPageSize) = <<>>
    /\ EpssReturn("nodata", {})

\* Run lines 77-81: the date of the first record does not parse.
EpssBadDate ==
    /\ epssPc = "idle"
    /\ epssEnabled
    /\ PageOf(epssUpstream, 0, EpssPageSize) # <<>>
    /\ PageOf(epssUpstream, 0, EpssPageSize)[1].date.kind # "date"
    /\ EpssReturn("error", {})

\* Run lines 59-80: page 0 is fetched, its first record gives the date.
EpssFetchFirst ==
    /\ epssPc = "idle"
    /\ epssEnabled
    /\ LET page == PageOf(epssUpstream, 0, EpssPageSize)
       IN /\ page # <<>>
          /\ page[1].date.kind = "date"
          /\ epssPage' = page
          /\ epssDate' = page[1].date
    /\ epssTotal' = Len(epssUpstream)
    /\ epssOffset' = 0
    /\ epssPc' = "gate"
    /\ epssResult' = "running"
    /\ epssDone' = {}
    /\ UNCHANGED <<EpssOthers, epssUpstream, epssDbVars>>

\* Run lines 86-89: the existence query fails.
EpssGateFails ==
    /\ epssPc = "gate"
    /\ EpssReturn("error", {})

\* Run lines 91-94: the date already has a row, the cycle ends.
EpssGateTrips ==
    /\ epssPc = "gate"
    /\ ~cancelled
    /\ EpssExists(epssDaily, epssDate)
    /\ EpssReturn("exists", {[date |-> epssDate, data |-> epssUpstream]})

\* Run lines 85-94: the date has no row.
EpssGatePasses ==
    /\ epssPc = "gate"
    /\ ~cancelled
    /\ ~EpssExists(epssDaily, epssDate)
    /\ epssPc' = "partition"
    /\ UNCHANGED <<EpssOthers, epssUpstream, epssDbVars, epssDate, epssTotal,
                   epssOffset, epssPage, epssResult, epssDone>>

\* Run lines 97-99, ensurePartition: CREATE TABLE IF NOT EXISTS ... PARTITION OF.
EpssEnsurePartition ==
    /\ epssPc = "partition"
    /\ ~cancelled
    /\ epssPartitions' = CreatePartition(epssPartitions, PartitionOf(epssDate))
    /\ epssPc' = "insert"
    /\ UNCHANGED <<EpssOthers, epssUpstream, epssDaily, epssDate, epssTotal,
                   epssOffset, epssPage, epssResult, epssDone>>

\* Run lines 97-99: ensurePartition fails.
EpssPartitionFails ==
    /\ epssPc = "partition"
    /\ EpssReturn("error", {})

\* Run lines 106-109 and 125-133, bulkInsert: the page is copied, offset moves.
EpssBulkInsert ==
    /\ epssPc = "insert"
    /\ ~cancelled
    /\ CopyAccepted(epssDaily, epssPartitions, epssPage, epssDate)
    /\ epssDaily' = epssDaily \cup EpssRowsOf(epssPage, epssDate, clock)
    /\ epssOffset' = EpssAdvance(epssOffset, epssPage)
    /\ epssPage' = <<>>
    /\ epssPc' = "loop"
    /\ UNCHANGED <<EpssOthers, epssUpstream, epssPartitions, epssDate, epssTotal,
                   epssResult, epssDone>>

\* Run lines 106-108 and 125-128: bulkInsert fails, nothing is copied.
EpssInsertFails ==
    /\ epssPc = "insert"
    /\ EpssReturn("error", {})

\* Run lines 112-123: the next page is fetched.
EpssFetchNext ==
    /\ epssPc = "loop"
    /\ epssOffset < epssTotal
    /\ PageOf(epssUpstream, epssOffset, EpssPageSize) # <<>>
    /\ epssPage' = PageOf(epssUpstream, epssOffset, EpssPageSize)
    /\ epssPc' = "insert"
    /\ UNCHANGED <<EpssOthers, epssUpstream, epssDbVars, epssDate, epssTotal,
                   epssOffset, epssResult, epssDone>>

\* Run lines 115-119: the fetch of a page fails; the loop ends, Run returns nil.
EpssFetchNextFails ==
    /\ epssPc = "loop"
    /\ epssOffset < epssTotal
    /\ EpssReturn("truncated", {})

\* Run lines 121-123: a page without records; the loop ends, Run returns nil.
EpssEmptyPage ==
    /\ epssPc = "loop"
    /\ epssOffset < epssTotal
    /\ EpssReturn("truncated", {})

\* Run lines 112, 136-137: offset has reached total.
EpssComplete ==
    /\ epssPc = "loop"
    /\ ~(epssOffset < epssTotal)
    /\ EpssReturn("ok", {[date |-> epssDate, data |-> epssUpstream]})

\* The process stops (crash, kill) wherever the cycle is.
EpssStop ==
    /\ epssPc # "idle"
    /\ EpssReturn("stopped", {})

EpssNext ==
    \/ CveClockAdvance
    \/ CancelContext
    \/ EpssPublish
    \/ EpssFetchFirstFails
    \/ EpssNoData
    \/ EpssBadDate
    \/ EpssFetchFirst
    \/ EpssGateFails
    \/ EpssGateTrips
    \/ EpssGatePasses
    \/ EpssEnsurePartition
    \/ EpssPartitionFails
    \/ EpssBulkInsert
    \/ EpssInsertFails
    \/ EpssFetchNext
    \/ EpssFetchNextFails
    \/ EpssEmptyPage
    \/ EpssComplete
    \/ EpssStop

CveNext ==
    \/ CveClockAdvance
    \/ CancelContext
    \/ NvdRunDisabled
    \/ NvdRunStart
    \/ NvdGetCursorFails
    \/ NvdNextWindow
    \/ NvdRunDone
    \/ NvdFetchThrottled
    \/ NvdFetchNetError
    \/ NvdFetchBadStatus
    \/ NvdParseFails
    \/ NvdEmptyPage
    \/ NvdSavePage
    \/ NvdSaveFails
    \/ NvdSaveDropsRecord
    \/ NvdSetCursor
    \/ NvdSetCursorFails
    \/ NvdStop
    \/ EpssRunDisabled
    \/ KevRunDisabled
    \/ KevFetchFails
    \/ KevGetCursorFails
    \/ KevUpToDate
    \/ KevNewCatalog
    \/ KevUpsert
    \/ KevUpsertFails
    \/ KevUpsertDropsRecord
    \/ KevSetCursor
    \/ KevSetCursorFails
    \/ KevStop

(***************************************************************************)
(* The supervisor's feed cycle: the configured feeds fan out under a       *)
(* counting semaphore; each goroutine takes a slot, runs FetchAndSave and  *)
(* gives the slot back.                                                    *)
(***************************************************************************)
Feeds == 1..NumFeeds

\* FetchAndSave returns nil or an error; either way it has returned.
FetchOutcomes == {"ok", "failed"}

Running == {f \in Feeds : feedRun[f] = "running"}

\* No slot is free: acquiring blocks.
SemNeverFull(taken) == FALSE

SemFull(taken) == taken >= SemCapacity

SupInit ==
    /\ feedRun = [f \in Feeds |-> "pending"]
    /\ sem = 0

SupOthers == <<clock, feedVars, dbVars, nvdVars, kevVars, cfgVars, ctxVars, epssVars,
               migVars, storeVars, ordVars>>

\* A feed's goroutine acquires a slot and starts FetchAndSave.
SupAcquire(f) ==
    /\ feedRun[f] = "pending"
    /\ ~SemFull(sem)
    /\ sem' = sem + 1
    /\ feedRun' = [feedRun EXCEPT ![f] = "running"]
    /\ UNCHANGED SupOthers

\* FetchAndSave returns nil: the slot is released.
SupFetchOk(f) ==
    /\ feedRun[f] = "running"
    /\ sem' = sem - 1
    /\ feedRun' = [feedRun EXCEPT ![f] = "ok"]
    /\ UNCHANGED SupOthers

\* FetchAndSave returns an error (the feed could not be fetched or parsed
\* within its deadline): the error is logged and the slot is released.
SupFetchFails(f) ==
    /\ feedRun[f] = "running"
    /\ sem' = sem - 1
    /\ feedRun' = [feedRun EXCEPT ![f] = "failed"]
    /\ UNCHANGED SupOthers

\* Every feed of the cycle has returned; the next tick starts a new cycle.
SupNextCycle ==
    /\ \A f \in Feeds : feedRun[f] \in FetchOutcomes
    /\ feedRun' = [f \in Feeds |-> "pending"]
    /\ UNCHANGED <<sem, SupOthers>>

SupNext ==
    \/ \E f \in Feeds : SupAcquire(f)
    \/ \E f \in Feeds : SupFetchOk(f)
    \/ \E f \in Feeds : SupFetchFails(f)
    \/ SupNextCycle

(***************************************************************************)
(* Migrate: goose.Up over the migration directory.  goose records every    *)
(* applied version in goose_db_version and runs each migration in a        *)
(* transaction of its own, together with the insertion of its version.     *)
(***************************************************************************)

\* The versions of the files of src/migrations: the digits before the first
\* underscore of the file name.
MigrationFiles == {20250525, 20250532, 20250601, 20250913, 20251214}

NoVersion == 0

MaxOf(S) == CHOOSE v \in S : \A w \in S : w <= v

MinOf(S) == CHOOSE v \in S : \A w \in S : v <= w

\* The version of the database: the newest version recorded, 0 on a database
\* goose has only just initialised.
DbVersion(recorded) == IF recorded = {} THEN NoVersion ELSE MaxOf(recorded)

Pending(files, recorded) == {v \in files : v > DbVersion(recorded)}

\* Files older than the version of the database that were never recorded:
\* goose.Up refuses to run while there are any.
Missing(files, recorded) ==
    {v \in files : v \notin recorded /\ v < DbVersion(recorded)}

NextVersionNewest(files, recorded) == MaxOf(Pending(files, recorded))

\* The migration goose applies next: the oldest one newer than the version of
\* the database.
NextVersion(files, recorded) == MinOf(Pending(files, recorded))

MigInit ==
    /\ migDir = {MinOf(MigrationFiles)}
    /\ gooseVersions = {}
    /\ schemaLog = <<>>
    /\ migPc = "idle"
    /\ migTx = NoVersion
    /\ migBefore = {}
    /\ migApplied = <<>>
    /\ migResult = "none"

MigOthers == <<clock, feedVars, dbVars, nvdVars, kevVars, cfgVars, ctxVars, epssVars,
               supVars, storeVars, ordVars>>

MigReturn(result) ==
    /\ migPc' = "idle"
    /\ migTx' = NoVersion
    /\ migResult' = result

\* Migrate is called: sql.Open succeeded.
MigrateOpen ==
    /\ migPc = "idle"
    /\ migPc' = "ping"
    /\ migBefore' = gooseVersions
    /\ migApplied' = <<>>
    /\ UNCHANGED <<migDir, gooseVersions, schemaLog, migTx, migResult, MigOthers>>

\* db.Ping fails: Migrate returns the error.
MigratePingFails ==
    /\ migPc = "ping"
    /\ MigReturn("error")
    /\ UNCHANGED <<migDir, gooseVersions, schemaLog, migBefore, migApplied, MigOthers>>

\* db.Ping succeeds and goose.Up starts.
MigratePing ==
    /\ migPc = "ping"
    /\ Missing(migDir, gooseVersions) = {}
    /\ migPc' = "up"
    /\ UNCHANGED <<migDir, gooseVersions, schemaLog, migTx, migBefore, migApplied,
                   migResult, MigOthers>>

\* goose.Up opens the transaction of the next migration and runs its
\* statements.
MigrateBegin ==
    /\ migPc = "up"
    /\ Pending(migDir, gooseVersions) # {}
    /\ migTx' = NextVersion(migDir, gooseVersions)
    /\ migPc' = "tx"
    /\ UNCHANGED <<migDir, gooseVersions, schemaLog, migBefore, migApplied,
                   migResult, MigOthers>>

\* The version is inserted into goose_db_version and the transaction commits.
MigrateCommit ==
    /\ migPc = "tx"
    /\ gooseVersions' = gooseVersions \cup {migTx}
    /\ schemaLog' = Append(schemaLog, migTx)
    /\ migApplied' = Append(migApplied, migTx)
    /\ migTx' = NoVersion
    /\ migPc' = "up"
    /\ UNCHANGED <<migDir, migBefore, migResult, MigOthers>>

\* A statement or the commit fails: the transaction is rolled back and
\* goose.Up, then Migrate, return the error.
MigrateStepFails ==
    /\ migPc = "tx"
    /\ MigReturn("error")
    /\ UNCHANGED <<migDir, gooseVersions, schemaLog, migBefore, migApplied, MigOthers>>

\* No migration is left: goose.Up and Migrate return nil.
MigrateDone ==
    /\ migPc = "up"
    /\ Pending(migDir, gooseVersions) = {}
    /\ MigReturn("ok")
    /\ UNCHANGED <<migDir, gooseVersions, schemaLog, migBefore, migApplied, MigOthers>>

\* A later release is deployed: its migration directory holds one more file,
\* newer than the others, and its process has not called Migrate yet.
MigrateNewRelease ==
    /\ migPc = "idle"
    /\ migDir # MigrationFiles
    /\ migDir' = migDir \cup {MinOf(MigrationFiles \ migDir)}
    /\ migResult' = "none"
    /\ UNCHANGED <<gooseVersions, schemaLog, migPc, migTx, migBefore, migApplied,
                   MigOthers>>

MigrateNext ==
    \/ MigrateNewRelease
    \/ MigrateOpen
    \/ MigratePingFails
    \/ MigratePing
    \/ MigrateBegin
    \/ MigrateCommit
    \/ MigrateStepFails
    \/ MigrateDone

(***************************************************************************)
(* The file store (pkg/storage): one JSON file of advisories per calendar  *)
(* day, written and read under Store.mu.                                   *)
(***************************************************************************)
Callers == 1..NumCallers

Days == 1..MaxDay

\* models.Advisory; cve_ids carries omitempty.
AdvA == [id |-> "ADV-001", title |-> "Test Advisory", cve_ids |-> <<"CVE-1">>,
         enriched |-> FALSE]
AdvB == [id |-> "ADV-002", title |-> "Other", cve_ids |-> <<>>, enriched |-> TRUE]

AdvisoryLists == {<<AdvA>>, <<AdvB, AdvA>>}

\* json.MarshalIndent of one advisory: the keys of the object and their values.
MarshalAdvisory(a) ==
    LET always == {<<"id", a.id>>, <<"title", a.title>>, <<"enriched", a.enriched>>}
    IN IF a.cve_ids = <<>> THEN always ELSE always \cup {<<"cve_ids", a.cve_ids>>}

\* json.MarshalIndent of the list: the array, element after element, closed.
MarshalAdvisories(list) ==
    [elems |-> [i \in 1..Len(list) |-> MarshalAdvisory(list[i])], closed |-> TRUE]

ValueOf(obj, key, default) ==
    IF \E kv \in obj : kv[1] = key
    THEN (CHOOSE kv \in obj : kv[1] = key)[2]
    ELSE default

\* json.Unmarshal into models.Advisory: a key that is missing leaves the zero
\* value.
UnmarshalAdvisory(obj) ==
    [id       |-> ValueOf(obj, "id", ""),
     title    |-> ValueOf(obj, "title", ""),
     cve_ids  |-> ValueOf(obj, "cve_ids", <<>>),
     enriched |-> ValueOf(obj, "enriched", FALSE)]

NoFile == [elems |-> <<>>, closed |-> FALSE, exists |-> FALSE]

FileOf(data) == [elems |-> data.elems, closed |-> data.closed, exists |-> TRUE]

\* What os.WriteFile leaves behind when a write fails after the file was
\* opened with O_TRUNC: a proper prefix of the data.
TruncatedAt(data, n) == [elems |-> SubSeq(data.elems, 1, n), closed |-> FALSE]

\* LoadAdvisories lines 133-143: os.ReadFile, then json.Unmarshal.
LoadResult(file) ==
    IF ~file.exists \/ ~file.closed THEN [err |-> TRUE, list |-> <<>>]
    ELSE [err |-> FALSE,
          list |-> [i \in 1..Len(file.elems) |-> UnmarshalAdvisory(file.elems[i])]]

NoOut == [err |-> FALSE, list |-> <<>>, call |-> "none", by |-> 0]

SaveOut(c, failed) == [err |-> failed, list |-> <<>>, call |-> "save", by |-> c]

LoadOut(c, res) == [err |-> res.err, list |-> res.list, call |-> "load", by |-> c]

FreeMu == [writer |-> 0, readers |-> {}]

\* sync.RWMutex.Lock: no writer and no reader holds it.
CanLock(mu) == mu.writer = 0 /\ mu.readers = {}

CanRLockAlways(mu) == TRUE

\* sync.RWMutex.RLock: no writer holds it.
CanRLock(mu) == mu.writer = 0

StoreInit ==
    /\ storeDay = 1
    /\ storeFiles = [d \in Days |-> NoFile]
    /\ storeMu = FreeMu
    /\ storePc = [c \in Callers |-> "idle"]
    /\ storeArg = [c \in Callers |-> <<>>]
    /\ storeOut = NoOut
    /\ lastSaved = [d \in Days |-> {}]
    /\ intact = [d \in Days |-> TRUE]

StoreOthers == <<clock, feedVars, dbVars, nvdVars, kevVars, cfgVars, ctxVars, epssVars,
                 supVars, migVars, ordVars>>

\* Midnight passes: time.Now() is on the next calendar day.
StoreMidnight ==
    /\ storeDay < MaxDay
    /\ \A c \in Callers : storePc[c] = "idle"
    /\ storeDay' = storeDay + 1
    /\ UNCHANGED <<storeFiles, storeMu, storePc, storeArg, storeOut, lastSaved, intact,
                   StoreOthers>>

\* SaveAdvisories lines 33-41: the lock is taken, the file name of today is
\* formed and the list is marshalled.
SaveLock(c) ==
    /\ storePc[c] = "idle"
    /\ CanLock(storeMu)
    /\ \E list \in AdvisoryLists : storeArg' = [storeArg EXCEPT ![c] = list]
    /\ storeMu' = [storeMu EXCEPT !.writer = c]
    /\ storePc' = [storePc EXCEPT ![c] = "save"]
    /\ UNCHANGED <<storeDay, storeFiles, storeOut, lastSaved, intact, StoreOthers>>

StoreReturn(c, out) ==
    /\ storePc' = [storePc EXCEPT ![c] = "idle"]
    /\ storeOut' = out
    /\ storeArg' = [storeArg EXCEPT ![c] = <<>>]

\* os.WriteFile cannot open the file: it is left as it was and the error is
\* returned.
SaveOpenFails(c) ==
    /\ storePc[c] = "save"
    /\ StoreReturn(c, SaveOut(c, TRUE))
    /\ storeMu' = FreeMu
    /\ UNCHANGED <<storeDay, storeFiles, lastSaved, intact, StoreOthers>>

\* os.WriteFile opens the file with O_TRUNC: it is empty.
SaveTruncate(c) ==
    /\ storePc[c] = "save"
    /\ storeFiles' = [storeFiles EXCEPT
                         ![storeDay] = FileOf(TruncatedAt(MarshalAdvisories(storeArg[c]), 0))]
    /\ storePc' = [storePc EXCEPT ![c] = "write"]
    /\ UNCHANGED <<storeDay, storeMu, storeArg, storeOut, lastSaved, intact, StoreOthers>>

\* The data is written and the file closed: SaveAdvisories returns nil.
SaveWrite(c) ==
    /\ storePc[c] = "write"
    /\ storeFiles' = [storeFiles EXCEPT ![storeDay] = FileOf(MarshalAdvisories(storeArg[c]))]
    /\ lastSaved' = [lastSaved EXCEPT ![storeDay] = {storeArg[c]}]
    /\ intact' = [intact EXCEPT ![storeDay] = TRUE]
    /\ StoreReturn(c, SaveOut(c, FALSE))
    /\ storeMu' = FreeMu
    /\ UNCHANGED <<storeDay, StoreOthers>>

\* The write fails part of the way (the disk is full): the file keeps what
\* was written and the error is returned.
SaveWriteFails(c) ==
    /\ storePc[c] = "write"
    /\ \E n \in 0..(Len(storeArg[c]) - 1) :
        storeFiles' = [storeFiles EXCEPT
                          ![storeDay] = FileOf(TruncatedAt(MarshalAdvisories(storeArg[c]), n))]
    /\ intact' = [intact EXCEPT ![storeDay] = FALSE]
    /\ StoreReturn(c, SaveOut(c, TRUE))
    /\ storeMu' = FreeMu
    /\ UNCHANGED <<storeDay, lastSaved, StoreOthers>>

\* LoadAdvisories lines 128-131: the read lock is taken for a day.
LoadLock(c) ==
    /\ storePc[c] = "idle"
    /\ CanRLock(storeMu)
    /\ \E d \in 1..storeDay : storeArg' = [storeArg EXCEPT ![c] = d]
    /\ storeMu' = [storeMu EXCEPT !.readers = @ \cup {c}]
    /\ storePc' = [storePc EXCEPT ![c] = "load"]
    /\ UNCHANGED <<storeDay, storeFiles, storeOut, lastSaved, intact, StoreOthers>>

\* LoadAdvisories lines 133-143: the file is read and decoded, the lock given
\* back.
LoadRead(c) ==
    /\ storePc[c] = "load"
    /\ StoreReturn(c, LoadOut(c, LoadResult(storeFiles[storeArg[c]])))
    /\ storeMu' = [storeMu EXCEPT !.readers = @ \ {c}]
    /\ UNCHANGED <<storeDay, storeFiles, lastSaved, intact, StoreOthers>>

StoreNext ==
    \/ StoreMidnight
    \/ \E c \in Callers : SaveLock(c)
    \/ \E c \in Callers : SaveOpenFails(c)
    \/ \E c \in Callers : SaveTruncate(c)
    \/ \E c \in Callers : SaveWrite(c)
    \/ \E c \in Callers : SaveWriteFails(c)
    \/ \E c \in Callers : LoadLock(c)
    \/ \E c \in Callers : LoadRead(c)

\* The configurations: the two runners share no row of cve_enriched (the key
\* carries the source) and no row of ingest_state, and are run one enabled at
\* a time; the feed ingestor runs with both disabled.  The EPSS runner writes
\* relations of its own.
CollectorConfigs == {<<FALSE, FALSE, FALSE>>, <<TRUE, FALSE, FALSE>>,
                     <<FALSE, TRUE, FALSE>>, <<FALSE, FALSE, TRUE>>}

Init ==
    /\ clock = 0
    /\ FeedInit
    /\ DbInit
    /\ NvdInit
    /\ KevInit
    /\ nvdEnabled \in BOOLEAN
    /\ kevEnabled \in BOOLEAN
    /\ epssEnabled \in BOOLEAN
    /\ <<nvdEnabled, kevEnabled, epssEnabled>> \in CollectorConfigs
    /\ cancelled = FALSE
    /\ EpssInit
    /\ SupInit
    /\ MigInit
    /\ StoreInit
    /\ OrdInit

InitFeed == Init /\ ~nvdEnabled /\ ~kevEnabled /\ ~epssEnabled

InitEpss == Init /\ epssEnabled

InitCve == Init /\ (nvdEnabled \/ kevEnabled)

SpecFeed == InitFeed /\ [][FeedNext]_vars

SpecOrd == InitFeed /\ [][OrdNext]_vars

SpecCve == InitCve /\ [][CveNext]_vars

InitScore == InitCve /\ nvdEnabled

SpecScore == InitScore /\ [][ScoreNext]_vars

SpecEpss == InitEpss /\ [][EpssNext]_vars

SpecMigrate == InitFeed /\ [][MigrateNext]_vars

SpecStore == InitFeed /\ [][StoreNext]_vars

SpecSup == InitFeed /\ [][SupNext]_vars

\* A goroutine that can take a slot takes it, and a FetchAndSave in progress
\* returns: its context carries a 30 second deadline.
SpecSupFair ==
    /\ SpecSup
    /\ \A f \in Feeds : WF_vars(SupAcquire(f))
    /\ \A f \in Feeds : WF_vars(SupFetchOk(f) \/ SupFetchFails(f))

\* The steps of an NVD cycle in progress: the goroutine that runs it keeps
\* running.
NvdProgress ==
    \/ NvdNextWindow
    \/ NvdRunDone
    \/ NvdFetchThrottled
    \/ NvdFetchNetError
    \/ NvdFetchBadStatus
    \/ NvdParseFails
    \/ NvdEmptyPage
    \/ NvdSavePage
    \/ NvdSaveFails
    \/ NvdSaveDropsRecord
    \/ NvdSetCursor
    \/ NvdSetCursorFails

\* The steps of a KEV cycle in progress.
KevProgress ==
    \/ KevUpsert
    \/ KevUpsertFails
    \/ KevUpsertDropsRecord
    \/ KevSetCursor
    \/ KevSetCursorFails

SpecCveFair ==
    InitCve /\ [][CveNext]_vars /\ WF_vars(NvdProgress) /\ WF_vars(KevProgress)

(***************************************************************************)
(* Claims about the feed collector.                                        *)
(***************************************************************************)

\* C1: Archive holds at most one row per GUID, and that row is the one the
\* first committed ingestion of the GUID proposed; later ingestions of the
\* same GUID neither change nor duplicate it.
C1_ArchiveKeepsFirst ==
    /\ \A r \in archive : r.guid \in Guids
    /\ \A g \in Guids :
        /\ Cardinality(RowsOf(archive, g)) <= 1
        /\ RowsOf(archive, g) = firstCommitted[g]

\* A later ingestion with another title was committed; Archive kept the first.
C1_Witness ==
    \E g \in Guids : \E a \in RowsOf(archive, g) : \E p \in lastCommitted[g] :
        a.title = "T1" /\ p.title = "T2"

\* The fields C2 calls mutable.
ClaimedMutableFields ==
    {"title", "link", "published", "entry_updated", "content", "summary",
     "categories", "feed_url", "feed_title", "feed_description",
     "feed_language", "feed_updated"}

\* C2: Current has exactly one row per ingested GUID and each of its mutable
\* fields, feed language included, equals the value of the most recent
\* committed ingestion.
C2_CurrentReflectsLatest ==
    \A g \in Guids :
        lastCommitted[g] # {} =>
            /\ Cardinality(RowsOf(current, g)) = 1
            /\ \A r \in RowsOf(current, g) : \A p \in lastCommitted[g] :
                  \A f \in ClaimedMutableFields : r[f] = p[f]

\* C3: the dual-write is atomic: archive and current change only in the step
\* that commits a transaction whose two statements were executed, and then
\* both the insert-if-absent and the upsert have taken effect; every other
\* step (a failed statement, a failed commit, a cancellation) changes neither.
ArchiveTookEffect(w) ==
    LET g == wparams[w].guid
    IN /\ RowsOf(archive', g) # {}
       /\ RowsOf(archive, g) = {} => RowsOf(archive', g) = wprop[w].arch
       /\ RowsOf(archive, g) # {} => archive' = archive
       /\ \A r \in archive' : r.guid # g => r \in archive
       /\ archive \subseteq archive'
CurrentTookEffect(w) ==
    LET g == wparams[w].guid
    IN /\ \E r \in RowsOf(current', g) : \A p \in wprop[w].cur :
            \A f \in UpsertSetColumns : r[f] = p[f]
       /\ Cardinality(RowsOf(current', g)) = 1
       /\ \A h \in Guids \ {g} : RowsOf(current', h) = RowsOf(current, h)
C3_DualWriteAtomic ==
    [][ \/ (archive' = archive /\ current' = current)
        \/ \E w \in Workers :
              /\ wpc[w] = "upserted"
              /\ wpc'[w] = "idle"
              /\ ArchiveTookEffect(w)
              /\ CurrentTookEffect(w) ]_vars

\* Both statements of a transaction were executed and nothing of them is
\* visible before the commit.
C3_Witness ==
    \E w \in Workers :
        /\ wpc[w] = "upserted"
        /\ txArchive[w] # {}
        /\ txCurrent[w].ins # {}
        /\ RowsOf(archive, wparams[w].guid) = {}
        /\ RowsOf(current, wparams[w].guid) = {}

(***************************************************************************)
(* Claims about the collectors.                                            *)
(***************************************************************************)
NvdPersistedIds == {r.cve_id : r \in {x \in enriched : x.source = "NVD"}}

KevPersisted(cat) ==
    \A i \in 1..Len(cat.vulnerabilities) :
        \E r \in enriched :
            /\ r.cve_id = cat.vulnerabilities[i].cveID
            /\ r.source = "CISA-KEV"
            /\ r.json = MarshalKev(cat.vulnerabilities[i])

\* C4: re-delivering the record that was upserted last for a key leaves the
\* row of that key as it was: a step after which the most recent upsert of a
\* key is still the same upstream record does not change the key's row.
C4_RedeliveryIdempotent ==
    [][\A k \in EnrichedKeys :
          (lastUpserted[k] # {} /\ lastUpserted'[k] = lastUpserted[k])
             => RowsOfKey(enriched', k) = RowsOfKey(enriched, k)]_vars

\* C5: in every NVD cycle each window is at most 120 days long, the first
\* window starts at the cycle's cursor, each following window starts at the
\* end of the one before, and a cycle that completes with cursor < now has
\* ended its last window at now.  The query carries each bound at whole
\* seconds: the start as it is, the end less than one second earlier.
C5_WindowsCoverCycle ==
    LET n == Len(cycleWindows)
        q(i) == WindowQuery(cycleWindows[i][1], cycleWindows[i][2])
    IN /\ \A i \in 1..n :
            /\ cycleWindows[i][1] < cycleWindows[i][2]
            /\ cycleWindows[i][2] - cycleWindows[i][1] <= 120 * Day
            /\ ParseRFC3339(q(i)[1]) = cycleWindows[i][1]
            /\ ParseRFC3339(q(i)[2]) <= cycleWindows[i][2]
            /\ cycleWindows[i][2] - ParseRFC3339(q(i)[2]) < TicksPerSec
       /\ n > 0 => cycleWindows[1][1] = cycleCursor
       /\ \A i \in 1..(n - 1) : cycleWindows[i + 1][1] = cycleWindows[i][2]
       /\ (nvdResult = "ok" /\ cycleCursor < nvdNow)
             => (n > 0 /\ cycleWindows[n][2] = nvdNow)

\* A completed cycle of two windows, the first of them clipped to 120 days.
C5_Witness ==
    /\ nvdResult = "ok"
    /\ Len(cycleWindows) = 2
    /\ cycleWindows[1] = <<0, 120 * Day>>
    /\ cycleWindows[2][2] = nvdNow

\* C6: the NVD cursor changes only in the step that follows a window whose
\* processWindow returned success, it becomes the text of that window's end,
\* and at that point every identifier served in a page of the window has been
\* written by saveBatch; no failing or stopping step writes the cursor.
C6_CursorAfterWindowSaved ==
    [][/\ ingestState'["NVD"] # ingestState["NVD"]
            => /\ nvdPc = "cursor"
               /\ nvdPc' = "loop"
               /\ ingestState'["NVD"] = {FormatRFC3339(endDt)}
       /\ nvdPc = "cursor" => winFetched \subseteq NvdPersistedIds]_vars

\* The cursor has just been written after a window that served records.
C6_Witness ==
    /\ nvdPc = "loop"
    /\ winFetched # {}
    /\ \E d \in lastDone : ingestState["NVD"] = {FormatRFC3339(d[2])}

\* C7 as stated: no state in which the results of a window or a catalog are
\* persisted while the cursor still has its old value.
C7_ResultsAndCursorAtomic ==
    /\ ~(nvdPc \in {"fetch", "cursor"} /\ winFetched # {}
             /\ winFetched \subseteq NvdPersistedIds)
    /\ ~(kevPc = "cursor"
             /\ \E cat \in kevCatalog :
                   KevPersisted(cat) /\ KevGetCursor # KevCursorOf(cat))

\* C7 amended: results are written first and the cursor afterwards, in
\* separate statements; the step that gives a collector's cursor its new value
\* writes nothing else, and happens only when every result of the window or
\* catalog is persisted.
C7_CursorNeverAheadOfResults ==
    [][/\ ingestState'["NVD"] # ingestState["NVD"]
            => /\ enriched' = enriched
               /\ winFetched \subseteq NvdPersistedIds
       /\ ingestState'["CISA-KEV"] # ingestState["CISA-KEV"]
            => /\ enriched' = enriched
               /\ \E cat \in kevCatalog :
                     /\ ingestState'["CISA-KEV"] = {KevCursorOf(cat)}
                     /\ KevPersisted(cat)]_vars

\* A KEV cycle has completed: the catalog's rows and its cursor are stored.
C7_Witness ==
    /\ kevResult = "ok"
    /\ ingestState["CISA-KEV"] = {KevCursorOf(KevCatNew)}
    /\ KevPersisted(KevCatNew)

\* C8 as stated: the persisted NVD cursor is the end of the last completed
\* window.
C8_CursorIsLastWindowEnd ==
    \A d \in lastDone : ParseRFC3339(NvdGetCursor) = d[2]

\* C8 amended: the persisted NVD cursor is the end of the last completed
\* window truncated to whole seconds (never later than that end, less than one
\* second earlier), there is no cursor row before a window completes, and a
\* cycle begins its first window exactly at the persisted cursor.
C8_ResumeFromTruncatedEnd ==
    /\ \A d \in lastDone :
          /\ ingestState["NVD"] # {}
          /\ ParseRFC3339(NvdGetCursor) <= d[2]
          /\ d[2] - ParseRFC3339(NvdGetCursor) < TicksPerSec
          /\ ParseRFC3339(NvdGetCursor) % TicksPerSec = 0
    /\ lastDone = {} => ingestState["NVD"] = {}
    /\ (nvdPc = "loop" /\ cycleWindows = <<>>)
          => /\ startDt = ParseRFC3339(NvdGetCursor)
             /\ cycleCursor = startDt

\* A cycle stopped after its first window, and the next cycle starts from
\* the end of that window.
C8_Witness ==
    /\ nvdPc = "loop"
    /\ cycleWindows = <<>>
    /\ lastDone = {<<0, 120 * Day>>}
    /\ startDt = 120 * Day
    /\ nvdNow > startDt

\* C9 as stated: every NVD cursor value written is strictly later than the
\* value persisted before the write.
C9_CursorStrictlyAdvances ==
    [][(nvdPc = "cursor" /\ nvdPc' = "loop" /\ ingestState["NVD"] # {})
          => ParseRFC3339(NvdGetCursor') > ParseRFC3339(NvdGetCursor)]_vars

\* C9 amended: every NVD cursor value written is later than or equal to the
\* value persisted before the write (equal when the window ends within the
\* second of the cursor); the persisted cursor never decreases and its row is
\* never removed.
C9_CursorNeverDecreases ==
    [][/\ ParseRFC3339(NvdGetCursor') >= ParseRFC3339(NvdGetCursor)
       /\ ingestState["NVD"] # {} => ingestState'["NVD"] # {}]_vars

\* The cursor has been written for a second window, later than the first.
C9_Witness ==
    /\ lastDone = {<<120 * Day, 213 * Day>>}
    /\ ingestState["NVD"] = {FormatRFC3339(213 * Day)}

\* C10: the persisted CISA-KEV cursor never moves to an earlier release.
C10_KevCursorNeverDecreases ==
    [][(ParsesRFC3339(KevGetCursor) /\ ParsesRFC3339(KevGetCursor'))
          => ParseRFC3339(KevGetCursor') >= ParseRFC3339(KevGetCursor)]_vars

\* C11: a KEV cycle whose catalog cursor equals the stored cursor returns
\* without a write: the step that ends it leaves cve_enriched and ingest_state
\* as they were, and a cycle goes on to its writes (upsertVulns, setCursor)
\* only with a catalog whose cursor differs from the stored one.
C11_KevUpToDateWritesNothing ==
    [][/\ (kevPc = "idle" /\ kevResult' = "uptodate")
            => (enriched' = enriched /\ ingestState' = ingestState)
       /\ kevPc' = "upsert"
            => \A cat \in kevCatalog' : KevCursorOf(cat) # KevGetCursor
       /\ (kevPc # "idle" /\ (enriched' # enriched \/ ingestState' # ingestState))
            => \E cat \in kevCatalog : KevCursorOf(cat) # KevGetCursor]_vars

\* A second cycle against the catalog that the first one stored.
C11_Witness ==
    /\ kevResult = "uptodate"
    /\ ingestState["CISA-KEV"] = {KevCursorOf(KevCatOld)}
    /\ KevPersisted(KevCatOld)

\* C13: the payload stored in the row (identifier, NVD) is the record the
\* upstream returned for the most recent upsert of that identifier, with
\* every upstream field.
C13_PayloadRoundTrip ==
    \A id \in CveIds :
        \A r \in RowsOfKey(enriched, <<id, "NVD">>) :
            \A rec \in lastUpserted[<<id, "NVD">>] :
                /\ DOMAIN r.json = DOMAIN rec
                /\ \A f \in DOMAIN rec : r.json[f] = rec[f]

RECURSIVE Pow2(_)
Pow2(n) == IF n = 0 THEN 1 ELSE 2 * Pow2(n - 1)

\* C14: while a page request is answered by 429 or 503, the sleep before the
\* i-th retry is min(6 * 2^(i-1), 60) seconds; a 429 or 503 never ends the
\* request (the runner stays in fetchWithRetry and changes nothing else), and
\* the request is still the one that a 200 completes.
C14_BackoffSchedule ==
    [][/\ backoff = (IF 6 * Pow2(retries) > 60 THEN 60 ELSE 6 * Pow2(retries))
       /\ retries' = retries + 1
            => /\ nvdPc = "fetch" /\ nvdPc' = "fetch"
               /\ startIndex' = startIndex
               /\ <<startDt', endDt'>> = <<startDt, endDt>>
               /\ <<enriched', ingestState'>> = <<enriched, ingestState>>]_vars

\* The fifth retry has been slept for: the cap has been reached.
C14_Witness ==
    /\ nvdPc = "fetch"
    /\ retries = 5
    /\ backoff = 60

(***************************************************************************)
(* Claims about the EPSS runner.                                           *)
(***************************************************************************)

\* C12: an EPSS cycle that finds a row for the as-of-date of page 0 ends
\* without a write: from the gate it can only return, leaving epss_daily and
\* its partitions as they were; the partition statement is reached only with
\* no row for the date, and while a cycle appends, the rows of its date are
\* the ones it has appended itself.
C12_EpssGateNoWrite ==
    [][/\ (epssPc = "gate" /\ EpssExists(epssDaily, epssDate))
            => (epssPc' \in {"gate", "idle"} /\ epssDbVars' = epssDbVars)
       /\ epssPc = "partition" => RowsOfDate(epssDaily, epssDate) = {}
       /\ epssPc \in {"insert", "loop"}
            => Cardinality(RowsOfDate(epssDaily, epssDate)) = epssOffset]_vars

\* The gate has tripped on a date that holds one row of three.
C12_Witness ==
    /\ epssResult = "exists"
    /\ \E d \in epssDone :
          /\ Cardinality(RowsOfDate(epssDaily, d.date)) = 1
          /\ Len(d.data) = 3

\* The rows of the date of d are the records of its data set, each once.
EpssHoldsAll(d) ==
    LET rows == RowsOfDate(epssDaily, d.date)
    IN /\ Cardinality(rows) = Len(d.data)
       /\ \A i \in 1..Len(d.data) :
             \E r \in rows : /\ r.cve_id = d.data[i].cve
                             /\ r.epss = d.data[i].epss.num
                             /\ r.percentile = d.data[i].percentile.num

\* C16: after a cycle that met no failure, whatever happened to the cycles
\* before it, all rows of its as-of-date are present, each once.
C16_EpssRestartCompletesDate ==
    \A d \in epssDone : EpssHoldsAll(d)

\* C20: after a cycle that started with no row for its as-of-date and whose
\* page fetches and bulk appends all succeeded, epss_daily holds for that date
\* exactly the records of all pages, each once: the row count is the
\* envelope's total.
C20_EpssCycleAppendsAllPages ==
    epssResult = "ok" => \A d \in epssDone : EpssHoldsAll(d)

\* A cycle over three pages of one record has completed.
C20_Witness ==
    /\ epssResult = "ok"
    /\ \E d \in epssDone :
          /\ Len(d.data) = 3
          /\ Cardinality(RowsOfDate(epssDaily, d.date)) = 3

\* C15: once the context is cancelled, every NVD and KEV cycle in progress
\* eventually returns.
C15_CancelledCyclesReturn ==
    cancelled ~> (nvdPc = "idle" /\ kevPc = "idle")

(***************************************************************************)
(* Further claims about the feed collector.                                *)
(***************************************************************************)
ElementsOf(html) == {html[i] : i \in 1..Len(html)}

\* C17: the content and the summary of every row of archive and current,
\* committed or written inside an open transaction, hold no script element
\* and no element outside the allowlist of the policy, also when the content
\* is the description taken in place of an empty sanitised body.
C17_StoredHtmlIsSanitised ==
    \A r \in archive \cup current
              \cup UNION {txArchive[w] \cup txCurrent[w].ins : w \in Workers} :
        /\ "script" \notin ElementsOf(r.content) \cup ElementsOf(r.summary)
        /\ ElementsOf(r.content) \cup ElementsOf(r.summary) \subseteq UGCAllowed

\* The body <p>..</p><script>..</script> is stored as <p>..</p>, and an item
\* whose body sanitises to nothing is stored with its sanitised description.
C17_Witness ==
    /\ \E r \in archive : r.title = "T1" /\ r.content = <<"p">>
    /\ \E r \in current : r.title = "T2" /\ r.content = <<"em">> /\ r.summary = <<"em">>

(***************************************************************************)
(* Claims about the supervisor.                                            *)
(***************************************************************************)

\* C18: During a feed cycle at most 3 FetchAndSave executions are in progress
\* at any instant, whatever the number of configured feeds: a feed is running
\* only while it holds one of the 3 slots, the slot is given back when the
\* fetch returns, with nil or with an error, and every configured feed of the
\* cycle is eventually processed.
C18_FeedGate ==
    /\ [](/\ Cardinality(Running) <= 3
          /\ sem = Cardinality(Running))
    /\ \A f \in Feeds :
        (feedRun[f] = "pending") ~> (feedRun[f] \in FetchOutcomes)

\* The gate binds: three fetches hold the three slots, another feed waits for
\* one, and a fetch that failed has already given its slot back.
C18_Witness ==
    /\ Cardinality(Running) = 3
    /\ sem = 3
    /\ \E f \in Feeds : feedRun[f] = "pending"
    /\ \E f \in Feeds : feedRun[f] = "failed"

(***************************************************************************)
(* Claims about Migrate.                                                   *)
(***************************************************************************)

\* The versions of S in increasing order.
RECURSIVE Ascending(_)
Ascending(S) == IF S = {} THEN <<>> ELSE <<MinOf(S)>> \o Ascending(S \ {MinOf(S)})

KevOneRowEach(rel, cat) ==
    \A i \in 1..Len(cat.vulnerabilities) :
        Cardinality(RowsOfKey(rel, <<cat.vulnerabilities[i].cveID, "CISA-KEV">>)) = 1

\* C21: in a KEV cycle whose release cursor differs from the stored one, the
\* stored cursor changes only in the step after the batch upsert, when every
\* entry of the fetched catalog already has its row (identifier, CISA-KEV),
\* and it becomes the release cursor; a failing batch upsert leaves the
\* stored cursor and the rows as they were; when the cycle returns success
\* the stored cursor is the release cursor and every entry of the catalog has
\* exactly one such row.
C21_KevCursorAfterUpsert ==
    [][/\ ingestState'["CISA-KEV"] # ingestState["CISA-KEV"]
            => /\ kevPc = "cursor"
               /\ kevCatalog # {}
               /\ \A cat \in kevCatalog :
                    /\ KevPersisted(cat)
                    /\ KevOneRowEach(enriched, cat)
                    /\ ingestState'["CISA-KEV"] = {KevCursorOf(cat)}
       /\ (kevPc = "upsert" /\ kevResult' = "error")
            => (ingestState' = ingestState /\ enriched' = enriched)
       /\ (kevPc # "idle" /\ kevResult' = "ok")
            => /\ kevCatalog # {}
               /\ \A cat \in kevCatalog :
                    /\ KevGetCursor' = KevCursorOf(cat)
                    /\ KevPersisted(cat)'
                    /\ KevOneRowEach(enriched', cat)]_vars

\* A cycle stored the cursor of a second catalog over that of a first one,
\* after upserting its two entries.
C21_Witness ==
    /\ kevPc = "idle"
    /\ kevResult = "ok"
    /\ ingestState["CISA-KEV"] = {KevCursorOf(KevCatNew)}
    /\ KevPersisted(KevCatNew)
    /\ KevOneRowEach(enriched, KevCatNew)
    /\ Cardinality({r \in enriched : r.source = "CISA-KEV"}) = 2

(***************************************************************************)
(* Claims about the file store.                                            *)
(***************************************************************************)

\* A LoadAdvisories of caller c returns in this step.
LoadReturns(c) == storePc[c] = "load" /\ storePc'[c] = "idle"

C23_WindowEndsAtTotal ==
    nvdPc = "cursor" => startIndex >= winTotal

\* C24: within an NVD cycle the collector has slept at least the rate-limit
\* interval (0.6 s with an API key, 6 s without) since the last response when
\* it sends the next page request, also when that request is the first of the
\* next window.
C24_PausedBeforeRequest ==
    nvdPc = "fetch" => (pause = NoRequestYet \/ pause >= RateDelay(TRUE))


\* A network error of the request in progress: the fetch slept and retries.
NetErrorStep ==
    /\ nvdPc = "fetch" /\ nvdPc' = "fetch"
    /\ retries' = retries /\ startIndex' = startIndex
    /\ pause' # pause

\* C25: on network errors the fetch follows the policy of 429/503: it sleeps
\* the backoff and doubles it up to 60 s, so that the sleep before the i-th
\* retry after consecutive network errors is min(6 * 2^(i-1), 60) seconds.
C25_NetErrorBackoff ==
    [][NetErrorStep
          => /\ pause' = backoff * 10
             /\ backoff' = (IF backoff * 2 > MaxBackoff THEN MaxBackoff
                            ELSE backoff * 2)]_vars

\* C26: a page request answered with a status other than 200, 429 or 503
\* fails the cycle at once: Run returns the error in that very step, the step
\* writes nothing, the cycle sends no request and writes nothing afterwards,
\* and the persisted cursor is still the end stored for the last window that
\* completed (none if no window ever did); the rows of the pages already
\* written stay.
C26_BadStatusFailsCycle ==
    [][/\ (nvdResult' = UnexpectedStatus /\ nvdResult # UnexpectedStatus)
            => /\ nvdPc = "fetch"
               /\ nvdPc' = "idle"
               /\ enriched' = enriched
               /\ ingestState' = ingestState
               /\ \A d \in lastDone : ingestState["NVD"] = {FormatRFC3339(d[2])}
               /\ lastDone = {} => ingestState["NVD"] = {}
       /\ nvdResult = UnexpectedStatus
            => /\ nvdPc = "idle"
               /\ enriched' = enriched
               /\ ingestState' = ingestState]_vars

\* A cycle completed its first window, wrote a page of the second and was
\* then answered with an unexpected status: the cursor is the end of the
\* first window and the rows are there.
C26_Witness ==
    /\ nvdPc = "idle"
    /\ nvdResult = UnexpectedStatus
    /\ lastDone = {<<0, 120 * Day>>}
    /\ ingestState["NVD"] = {FormatRFC3339(120 * Day)}
    /\ NvdPersistedIds # {}

\* C27: the cursor a KEV cycle stores is the catalog's release timestamp
\* normalised to RFC3339 when that timestamp parses, and the catalog-version
\* string whenever it does not parse, empty or not.
C27_KevCursorFallsBackToVersion ==
    [][ingestState'["CISA-KEV"] # ingestState["CISA-KEV"]
          => \E cat \in kevCatalog :
                ingestState'["CISA-KEV"] =
                    {IF ParsesRFC3339(cat.dateReleased)
                     THEN FormatRFC3339(ParseRFC3339(cat.dateReleased))
                     ELSE cat.catalogVersion}]_vars

\* C28: the rows upserted by one KEV cycle all carry the catalog's release
\* timestamp as their modified value, never a date of the entry and never the
\* wall clock.
C28_KevModifiedIsRelease ==
    [][(kevPc = "upsert" /\ kevPc' = "cursor")
          => \E cat \in kevCatalog :
                /\ ParsesRFC3339(cat.dateReleased)
                /\ \A r \in enriched' :
                      (/\ r.source = "CISA-KEV"
                       /\ \E i \in 1..Len(cat.vulnerabilities) :
                              r.cve_id = cat.vulnerabilities[i].cveID)
                      => r.modified = ParseRFC3339(cat.dateReleased)]_vars

\* The rows of the records of recs other than the dropped ones are in rel.
OthersPersisted(rel, source, recs, ids, dropped) ==
    \A i \in 1..Len(recs) :
        (i \notin dropped /\ ids[i] \notin {ids[j] : j \in dropped})
            => \E r \in rel : r.cve_id = ids[i] /\ r.source = source

StorageFailureStep ==
    \/ NvdSaveFails
    \/ NvdSetCursorFails
    \/ KevUpsertFails
    \/ KevSetCursorFails

\* C30: a storage primitive that fails transiently is retried by the
\* collector; one failure does not end the cycle, which is abandoned only
\* after three consecutive failures of the primitive.  So the step of a
\* failure leaves the cycle where it is, about to call the primitive again.
C30_StorageFailureRetried ==
    [][StorageFailureStep
          => /\ nvdPc' = nvdPc
             /\ kevPc' = kevPc
             /\ nvdResult' # "error"
             /\ kevResult' # "error"]_vars

\* The item of the feed documents that carries title t.
ItemTitled(t) == CHOOSE it \in {in.item : in \in FeedInputs} : it.Title = t

\* The key the claim gives an item: its GUID when non-empty, else its link.
ClaimedKey(it) == IF it.GUID # "" THEN it.GUID ELSE it.Link

\* C31: an item is written to Archive and Current under its GUID when the
\* GUID is non-empty, else under its link; an item with neither is rejected
\* before a transaction is opened, so no transaction ever carries it and no
\* row of either relation comes from it.
C31_KeyIsGuidElseLink ==
    /\ \A w \in Workers :
          wpc[w] # "idle"
             => /\ wparams[w].guid # ""
                /\ wparams[w].guid = ClaimedKey(ItemTitled(wparams[w].title))
    /\ \A r \in archive \cup current :
          /\ r.guid # ""
          /\ r.guid = ClaimedKey(ItemTitled(r.title))
          /\ ClaimedKey(ItemTitled(r.title)) # ""

\* An item without GUID is stored under its link in both relations, next to
\* an item stored under its GUID, while the item with neither is on offer.
C31_Witness ==
    /\ \E r \in archive : r.guid = Item3.Link /\ r.title = Item3.Title
    /\ \E r \in current : r.guid = Item3.Link /\ r.title = Item3.Title
    /\ \E r \in current : r.guid = Item1.GUID
    /\ \E in \in FeedInputs : in.item.GUID = "" /\ in.item.Link = ""

\* The score the claim gives a metrics block.
ClaimedScore(m) ==
    IF ~m.present \/ ~m.valid THEN <<>>
    ELSE IF m.v31 # <<>> THEN <<Head(m.v31)>>
    ELSE IF m.v30 # <<>> THEN <<Head(m.v30)>>
    ELSE <<>>

\* C32: the base score stored with an NVD record is the base score of the
\* first v3.1 metric of its metrics block when the v3.1 list is non-empty,
\* else that of the first v3.0 metric when the v3.0 list is non-empty, else
\* null, also when the block is absent or unparseable; v2 metrics never count.
C32_ScorePrefersV31 ==
    \A r \in enriched :
        r.source = "NVD"
            => /\ r.cvss_base = ClaimedScore(r.json.metrics)
               /\ (r.json.metrics.v31 = <<>> /\ r.json.metrics.v30 = <<>>)
                      => r.cvss_base = <<>>

\* A record scored by the v3.0 fallback: its v3.1 list is empty, its v3.0
\* list holds two metrics and it has a v2 metric as well.
C32_Witness ==
    \E r \in enriched :
        /\ r.source = "NVD"
        /\ r.json.metrics.v31 = <<>>
        /\ r.json.metrics.v30 = <<0, 98>>
        /\ r.json.metrics.v2 # <<>>
        /\ r.cvss_base = <<0>>

\* The titles of the items of a feed document, in feed order.
TitlesOf(d) == [i \in 1..Len(d.items) |-> d.items[i].Title]

\* processItem returns an error for worker w: it fails before it has a
\* transaction, or a statement or the commit fails and it rolls back.
ItemFailureStep(w) ==
    \/ RollbackTx(w)
    \/ (wpc[w] = "idle" /\ wpc'[w] = "idle" /\ fnext'[w] = fnext[w] + 1)

\* C33: within one feed the items are handed to processItem one at a time
\* and in feed order, each in a transaction of its own; the failure of an
\* item leaves the feed in progress and the committed rows in place; the
\* walk of a feed ends only when every item of the feed has been processed.
C33_ItemFailureDoesNotAbortFeed ==
    [][\A w \in Workers :
          /\ fnext'[w] = fnext[w] + 1
                => /\ wpc[w] = "idle"
                   /\ txArchive[w] = {} /\ txCurrent[w] = NoWrite
                   /\ \E d \in fdoc[w] :
                         /\ fseen'[w] = SubSeq(TitlesOf(d), 1, fnext'[w])
                         /\ wpc'[w] # "idle"
                               => wparams'[w].title = d.items[fnext'[w]].Title
          /\ ItemFailureStep(w)
                => /\ fdoc'[w] = fdoc[w]
                   /\ archive' = archive
                   /\ current' = current
          /\ (fdoc[w] # {} /\ fdoc'[w] = {})
                => \E d \in fdoc[w] : fseen[w] = TitlesOf(d) /\ wpc[w] = "idle"]_vars

\* A walk of feed A has committed its first item, seen its second item fail
\* for want of an identity, rolled back or committed nothing since, and has
\* its third item in an open transaction while the first item's rows are
\* still there.
C33_Witness ==
    \E w \in Workers :
        /\ fdoc[w] = {DocA}
        /\ fseen[w] = <<Item1.Title, Item4.Title, Item3.Title>>
        /\ wpc[w] = "upserted"
        /\ \E r \in archive : r.guid = Item1.GUID /\ r.title = Item1.Title
        /\ \E r \in current : r.guid = Item1.GUID

\* Partition p covers exactly one calendar month: from its first day to the
\* first day of the following month, which is January of the next year
\* after December.
CoversCalendarMonth(p) ==
    LET y == p.name[1]
        m == p.name[2]
    IN /\ m \in 1..12
       /\ p.from = <<y, m, 1>>
       /\ p.to = IF m = 12 THEN <<y + 1, 1, 1>> ELSE <<y, m + 1, 1>>

\* The partition of the month of the date exists.
MonthEnsured(parts, date) ==
    \E p \in parts :
        /\ p.name = <<date.year, date.month>>
        /\ CoversCalendarMonth(p)
        /\ InPartition(date, p)

\* C34: a cycle that passed the gate ensures the partition of the calendar
\* month of its as-of-date before it appends a row: whenever rows are about
\* to be appended that partition exists, from the first day of the month to
\* the first day of the following month (of the next year after December);
\* ensuring a partition that exists changes nothing, and a cycle whose
\* ensuring fails ends without appending a row.
C34_PartitionEnsuredFirst ==
    [][/\ \A p \in epssPartitions' : CoversCalendarMonth(p)
       /\ epssPc' = "insert" => MonthEnsured(epssPartitions', epssDate')
       /\ epssDaily' # epssDaily => MonthEnsured(epssPartitions, epssDate)
       /\ (epssPc = "partition" /\ MonthEnsured(epssPartitions, epssDate))
             => epssPartitions' = epssPartitions
       /\ (epssPc = "partition" /\ epssPc' = "idle")
             => epssDaily' = epssDaily /\ epssPartitions' = epssPartitions]_vars

\* A cycle for 31 December has passed the gate and ensured the December
\* partition, which ends on 1 January of the next year, and is about to
\* append its first row; the January partition of an earlier cycle and its
\* rows are there.
C34_Witness ==
    /\ epssPc = "insert"
    /\ epssDate = DateOf(2025, 12, 31)
    /\ \E p \in epssPartitions : p.name = <<2025, 12>> /\ p.to = <<2026, 1, 1>>
    /\ \E p \in epssPartitions : p.name = <<2025, 1>>
    /\ \E r \in epssDaily : r.as_of = DateOf(2025, 1, 1)

\* A cycle that started from 2000-01-01T00:00:00Z with now =
\* 2000-08-01T00:00:00Z, 213 days later, has returned success.
ScenarioS3Done ==
    /\ nvdPc = "idle"
    /\ nvdResult = "ok"
    /\ cycleCursor = 0
    /\ nvdNow = 213 * Day

\* C35 as stated: the cycle of scenario S3 issues three windows, the first
\* from 2000-01-01 to 2000-04-30 and the last clipped to end at 2000-08-01,
\* and ends with the cursor 2000-08-01T00:00:00Z.
C35_ScenarioS3ThreeWindows ==
    ScenarioS3Done
        => /\ Len(cycleWindows) = 3
           /\ cycleWindows[1] = <<0, 120 * Day>>
           /\ cycleWindows[Len(cycleWindows)][2] = 213 * Day
           /\ ingestState["NVD"] = {TimeStr(213 * 24 * 3600, 0, "Z")}

\* C35 amended: the cycle of scenario S3 issues two windows, 2000-01-01 to
\* 2000-04-30 and 2000-04-30 to 2000-08-01, the second clipped from
\* 2000-08-28 to now, and ends with the cursor 2000-08-01T00:00:00Z.
C35_ScenarioS3TwoWindows ==
    ScenarioS3Done
        => /\ cycleWindows = << <<0, 120 * Day>>, <<120 * Day, 213 * Day>> >>
           /\ ingestState["NVD"] = {TimeStr(213 * 24 * 3600, 0, "Z")}

\* The cycle of scenario S3 has returned, started with no cursor row, and
\* rows of its pages are stored.
C35_Witness ==
    /\ ScenarioS3Done
    /\ Len(cycleWindows) = 2
    /\ ingestState["NVD"] = {TimeStr(213 * 24 * 3600, 0, "Z")}
    /\ NvdPersistedIds # {}

GuidsIn(rel) == {r.guid : r \in rel}

\* C36: whatever dual-writes were committed or rolled back, and whatever
\* transactions are open, Archive and Current hold rows for the same GUIDs:
\* no GUID has a row in one relation and none in the other.
C36_SameGuidsInBoth == GuidsIn(archive) = GuidsIn(current)

\* Both relations hold the two GUIDs after commits of different feeds, and
\* one transaction is open on a GUID that is already stored.
C36_Witness ==
    /\ GuidsIn(archive) = Guids
    /\ GuidsIn(current) = Guids
    /\ \E r \in current : r.guid = "g1" /\ r.title = Item2.Title
    /\ \E r \in archive : r.guid = "g1" /\ r.title = Item1.Title
    /\ \E w \in Workers : wpc[w] = "upserted" /\ wparams[w].guid = "g1"

\* A dual-write transaction of worker w is open.
TxOpen(w) == wpc[w] \in {"began", "archived", "upserted"}

\* The next statement of w's open transaction waits for a row another open
\* transaction holds.
TxBlocked(w) ==
    \/ wpc[w] = "began" /\ ArchiveLocked(w, wparams[w].guid)
    \/ wpc[w] = "archived" /\ CurrentLocked(w, wparams[w].guid)

\* Whenever transactions are open, one of them can take its next step.
NoDeadlock ==
    (\E w \in Workers : TxOpen(w)) => \E w \in Workers : TxOpen(w) /\ ~TxBlocked(w)

\* Every transaction on g has ended and at least one of them committed.
Settled(g) ==
    /\ lastCommitted[g] # {}
    /\ \A w \in Workers : TxOpen(w) => wparams[w].guid # g

ArchiveHoldsFirstInsert(g) ==
    /\ Cardinality(RowsOf(archive, g)) = 1
    /\ RowsOf(archive, g) = firstCommitted[g]

CurrentHoldsLastCommit(g, fields) ==
    /\ Cardinality(RowsOf(current, g)) = 1
    /\ \A r \in RowsOf(current, g) : \A p \in lastCommitted[g] :
          \A f \in fields : r[f] = p[f]

\* C37: concurrent dual-writes of items with the same GUID never deadlock, and
\* once they have ended Archive has exactly one row for the GUID, the
\* observation of the transaction that inserted first, and Current exactly one
\* row, the observation of the transaction that committed last.
C37_ConcurrentSameGuidSettles ==
    /\ NoDeadlock
    /\ \A g \in Guids :
          Settled(g) =>
              /\ ArchiveHoldsFirstInsert(g)
              /\ CurrentHoldsLastCommit(g, ClaimedMutableFields)

\* What the statements do guarantee: the same, for the columns of the
\* upsert's SET list.
C37_SettlesOnSetColumns ==
    /\ NoDeadlock
    /\ \A g \in Guids :
          Settled(g) =>
              /\ ArchiveHoldsFirstInsert(g)
              /\ CurrentHoldsLastCommit(g, UpsertSetColumns)

\* Two transactions on the same GUID are open at once, one waiting for the
\* other's uncommitted archive row.
C37_Contention ==
    \E v, w \in Workers :
        /\ v # w
        /\ TxOpen(v) /\ TxBlocked(w)
        /\ wparams[v].guid = wparams[w].guid

\* A step of fetchWithRetry that repeats the request after a 429, a 503 or a
\* network error; every other step at "fetch" handles a 200 response or ends
\* the cycle.
RetriedRequest == NvdFetchThrottled \/ NvdFetchNetError

\* A step of the NVD runner after which the loop of processWindow goes round
\* once more in the same window.
NextIteration ==
    /\ nvdPc = "fetch"
    /\ nvdPc' = "fetch"
    /\ nvdVars' # nvdVars
    /\ ~RetriedRequest

\* C38: in the pagination loop of one window every iteration on a 200
\* response either leaves the loop or moves startIndex up by the number of
\* records the page returned, a positive number, to an index still below a
\* totalResults of at most MaxTotal; so no startIndex is requested again in
\* the window and the loop ends after at most MaxTotal iterations.
C38_PaginationAdvances ==
    [][NextIteration =>
          /\ \E page \in NvdPages \ {<<>>} :
                /\ startIndex' = startIndex + Len(page)
                /\ IdsOf(page) \subseteq winFetched'
          /\ startIndex' > startIndex
          /\ startIndex' < MaxTotal
          /\ cycleWindows' = cycleWindows]_vars

\* The second page of a window is being requested: the first page moved
\* startIndex and the loop went round.
C38_Witness ==
    /\ nvdPc = "fetch"
    /\ startIndex = PageSize
    /\ winFetched # {}
    /\ Len(cycleWindows) > 0

\* The as-of-date of the first row of page 0 of the data set being served.
PageZeroDate == PageOf(epssUpstream, 0, EpssPageSize)[1].date

\* C39: every row an EPSS cycle appends is stored under the as-of-date of the
\* first row of page 0, whatever date the upstream row carries; rows are
\* appended only by the insert step of a cycle.
C39_RowsStoredUnderPageZeroDate ==
    [][epssDaily' # epssDaily =>
          /\ epssPc = "insert"
          /\ epssDaily \subseteq epssDaily'
          /\ \A r \in epssDaily' \ epssDaily : r.as_of = PageZeroDate]_vars

\* A later page's row that the upstream dates 1 January 2026 is stored under
\* 31 December 2025, the date of page 0.
C39_Witness ==
    /\ epssUpstream = EpssDayRoll
    /\ EpssDayRoll[2].date # EpssDayRoll[1].date
    /\ \E r \in epssDaily :
          /\ r.cve_id = EpssDayRoll[2].cve
          /\ r.epss = EpssDayRoll[2].epss.num
          /\ r.as_of = EpssDayRoll[1].date
    /\ ~\E r \in epssDaily : r.as_of = EpssDayRoll[2].date

\* What Run hands back to its caller for each way a cycle ends: nil after
\* "no data", after the gate tripped, after the loop ran to total and after
\* the loop was left by break; an error otherwise.
EpssRunReturnsNil(result) == result \in {"nodata", "exists", "ok", "truncated"}

\* Run returns from a cycle that passed the gate.
EpssReturnsPastGate ==
    /\ epssPc \in {"partition", "insert", "loop"}
    /\ epssPc' = "idle"
    /\ epssResult' # "stopped"

\* C40: a cycle that passed the gate returns success only if its offset
\* reached the envelope's total; when it stops earlier it returns an error.
C40_SuccessOnlyWhenComplete ==
    [][EpssReturnsPastGate =>
          (EpssRunReturnsNil(epssResult') => ~(epssOffset < epssTotal))]_vars

\* What Run does guarantee: it returns an error when ensurePartition or
\* bulkInsert fails, and success when the loop ends, by break or at total.
C40_SuccessWhenLoopEnds ==
    [][EpssReturnsPastGate =>
          (EpssRunReturnsNil(epssResult') <=> epssPc = "loop")]_vars

====
